---- MODULE Spec2Model ----
(***************************************************************************)
(* Model of graph2tac/tfgnn/tasks.py: the scoring, loss and metric code of *)
(* the tactic / argument prediction tasks.                                 *)
(*                                                                         *)
(* Numbers.  A non-negative float of the linear domain (a probability, a   *)
(* sum of exponentials, a scatter count) is the exact ratio <<n, d>>:      *)
(* <<n, d>> with d > 0 is n/d in lowest terms, <<1, 0>> is +inf and        *)
(* <<0, 0>> is NaN.  A float x of the log domain (a logit, a log           *)
(* probability, a loss) is the record [ln |-> r] with x = ln(r), so        *)
(* [ln |-> <<0, 1>>] is -inf, [ln |-> <<1, 1>>] is 0.0 and addition of     *)
(* logits is multiplication of ratios.  Raw scores are dot products of     *)
(* integer vectors in units of ln 2.  Ids and indices are 0-based as in    *)
(* the source; sequence position i + 1 holds index i.                      *)
(***************************************************************************)
EXTENDS Integers, Sequences, FiniteSets, TLC

VARIABLES pc, batch, cfg, fwd, loss, acc, met, mixed, seen

vars == <<pc, batch, cfg, fwd, loss, acc, met, mixed, seen>>

-----------------------------------------------------------------------------
(* Bounds of the model.                                                    *)

MaxBatch == 2
MaxBatchArgs == 2
HiddenSize == 1

-----------------------------------------------------------------------------
(* Exact arithmetic on the ratios.                                         *)

RECURSIVE Gcd(_, _)
Gcd(a, b) == IF b = 0 THEN a ELSE Gcd(b, a % b)

RNorm(n, d) ==
    IF d = 0 THEN (IF n = 0 THEN <<0, 0>> ELSE <<1, 0>>)
    ELSE IF n = 0 THEN <<0, 1>>
    ELSE LET g == Gcd(n, d) IN <<n \div g, d \div g>>

RNaN == <<0, 0>>
RIsNaN(a) == a = RNaN
RMul(a, b) == RNorm(a[1] * b[1], a[2] * b[2])
RInv(a) == <<a[2], a[1]>>
RAdd(a, b) ==
    IF a = <<1, 0>> /\ b = <<1, 0>> THEN <<1, 0>>
    ELSE RNorm(a[1] * b[2] + b[1] * a[2], a[2] * b[2])
RGeq(a, b) == ~RIsNaN(a) /\ ~RIsNaN(b) /\ a[1] * b[2] >= b[1] * a[2]
RGt(a, b) == ~RIsNaN(a) /\ ~RIsNaN(b) /\ a[1] * b[2] > b[1] * a[2]

RECURSIVE Pow2(_)
Pow2(k) == IF k = 0 THEN 1 ELSE 2 * Pow2(k - 1)

(* Floats of the log domain.                                               *)
Log(r) == [ln |-> r]
Exp(x) == x.ln
NegInf == Log(<<0, 1>>)
Zero == Log(<<1, 1>>)
NaN == Log(RNaN)
IsNaN(x) == RIsNaN(x.ln)
IsFinite(x) == x.ln[1] > 0 /\ x.ln[2] > 0
LAdd(x, y) == Log(RMul(x.ln, y.ln))
LNeg(x) == Log(RInv(x.ln))
LSub(x, y) == LAdd(x, LNeg(y))
LGeq(x, y) == RGeq(x.ln, y.ln)
LGt(x, y) == RGt(x.ln, y.ln)
(* a maximum with a NaN operand is NaN; no NaN reaches a maximum here      *)
LMax(x, y) == IF IsNaN(x) \/ IsNaN(y) THEN NaN ELSE IF LGeq(x, y) THEN x ELSE y
(* the float s * ln 2 for an integer s                                     *)
Score(s) == IF s >= 0 THEN Log(<<Pow2(s), 1>>) ELSE Log(<<1, Pow2(0 - s)>>)

-----------------------------------------------------------------------------
(* Reductions over one axis.                                               *)

RECURSIVE ReduceMax(_)
ReduceMax(row) ==
    IF row = <<>> THEN NegInf ELSE LMax(Head(row), ReduceMax(Tail(row)))

RECURSIVE ReduceSumExp(_)
ReduceSumExp(row) ==
    IF row = <<>> THEN <<0, 1>> ELSE RAdd(Exp(Head(row)), ReduceSumExp(Tail(row)))

RECURSIVE ReduceSum(_)
ReduceSum(row) ==
    IF row = <<>> THEN Zero ELSE LAdd(Head(row), ReduceSum(Tail(row)))

(* tf.argmax: the index of the first maximal entry of a non-empty row      *)
ArgMax(row) ==
    (CHOOSE i \in 1..Len(row) :
        /\ \A j \in 1..Len(row) : LGeq(row[i], row[j])
        /\ \A j \in 1..(i - 1) : ~LGeq(row[j], row[i])) - 1

(* the sequence s itself, as an explicit tuple: every tensor below is built *)
(* through it so that it is computed once                                  *)
Strict(s) == <<>> \o s

RECURSIVE Concat(_)
Concat(ss) == IF ss = <<>> THEN <<>> ELSE Head(ss) \o Concat(Tail(ss))

SetMax(S) == IF S = {} THEN 0 ELSE CHOOSE m \in S : \A x \in S : m >= x

(* tf.RaggedTensor.from_tensor(..., lengths=...) on one row: the first     *)
(* length entries, a length beyond the row being cut to the row            *)
FromTensor(s, length) == SubSeq(s, 1, IF length <= Len(s) THEN length ELSE Len(s))

PadTo(s, n, fill) == Strict([i \in 1..n |-> IF i <= Len(s) THEN s[i] ELSE fill])

-----------------------------------------------------------------------------
(* Graph constants and weights of the task (GraphConstants, embeddings).   *)

Vec(v) == Strict([i \in 1..HiddenSize |-> v])

(* graph_constants.tactic_index_to_numargs: tactic t takes t arguments     *)
TacticNumArgs == <<0, 1, 2>>
Tactics == 0..(Len(TacticNumArgs) - 1)
NumArgs(t) == TacticNumArgs[t + 1]

(* the embeddings of the global vocabulary, one row per GlobalId           *)
GlobalKeys == <<Vec(0 - 1), Vec(3)>>
GlobalSize == Len(GlobalKeys)
GlobalIds == 0..(GlobalSize - 1)

(* hidden states of the nodes of a proof-state graph (GNN output)          *)
NodeHidden == <<Vec(1), Vec(2)>>

(* Inputs are drawn from these sets.                                       *)
LocalContexts == {<<>>, <<1>>, <<0, 1>>}
GlobalContexts == {<<>>, <<1>>, <<0, 1>>, <<1, 0>>}
QueryVals == {0, 1}
DefaultQueries == {1}
TacticLogits(t) == Strict([i \in 1..Len(TacticNumArgs) |-> IF i = t + 1 THEN Score(1) ELSE Score(0)])
DefaultTacticLogits == TacticLogits(1)

-----------------------------------------------------------------------------
(* Scoring layers.                                                         *)

RECURSIVE Dot(_, _)
Dot(q, k) == IF q = <<>> THEN 0 ELSE Head(q) * Head(k) + Dot(Tail(q), Tail(k))

(* QueryKeyMul._mul_broadcast_ragged: logits[b][a][c] = queries[b][a] . keys[b][c] *)
QueryKeyMul(queries, keys) ==
    Strict([b \in 1..Len(queries) |->
        Strict([a \in 1..Len(queries[b]) |->
            Strict([c \in 1..Len(keys[b]) |-> Score(Dot(queries[b][a], keys[b][c]))])])])

(* GlobalEmbeddings.call: every embedding for every example, whatever the ids *)
GlobalEmbeddings(global_context) ==
    Strict([b \in 1..Len(global_context) |-> GlobalKeys])

(* tf.norm(x, axis=-1) of a vector whose squared length is a square        *)
Norm(x) == CHOOSE r \in 0..Dot(x, x) : r * r = Dot(x, x)

(* QueryKeyMulGlobal.normalize_tensor: x / |x| by divide_no_nan, the zero   *)
(* vector staying zero; the vectors drawn here have whole quotients        *)
normalize_tensor(x) ==
    Strict([i \in 1..Len(x) |-> IF Norm(x) = 0 THEN 0 ELSE x[i] \div Norm(x)])

(* QueryKeyMulGlobal.normalize_ragged: every vector of a ragged tensor     *)
normalize_ragged(rt) ==
    Strict([b \in 1..Len(rt) |-> Strict([a \in 1..Len(rt[b]) |-> normalize_tensor(rt[b][a])])])

(* the learned temperature of the global logits (_temp of the layer that   *)
(* holds the embeddings), a ratio 1 / k                                    *)
Temp == <<1, 2>>

(* the float x * k for a whole k >= 1: k * ln r = ln r^k                   *)
RECURSIVE LTimes(_, _)
LTimes(x, k) == IF k = 1 THEN x ELSE LAdd(x, LTimes(x, k - 1))

(* the float x / temp for a temperature 1 / k                              *)
LDiv(x, temp) == LTimes(x, temp[2])

(* QueryKeyMulGlobal.call: with cosine_similarity the keys and the queries *)
(* are normalized before the products are taken and the products are       *)
(* divided by the temperature                                              *)
QueryKeyMulGlobal(queries, keys, cosine_similarity, temp) ==
    IF cosine_similarity
    THEN LET logits == QueryKeyMul(normalize_ragged(queries), normalize_ragged(keys))
         IN Strict([b \in 1..Len(logits) |->
                Strict([a \in 1..Len(logits[b]) |->
                    Strict([c \in 1..Len(logits[b][a]) |-> LDiv(logits[b][a][c], temp)])])])
    ELSE QueryKeyMul(queries, keys)

(* A variant that reads the local context ids without the offset of the    *)
(* graphs before.                                                          *)
local_context_ids_unshifted(bt) ==
    Strict([b \in 1..Len(bt) |-> bt[b].lctx])

(* LocalArgumentPrediction._local_context_hidden, local_context_ids: the   *)
(* flat node id of every local context entry, cumsum(sizes, exclusive) of  *)
(* the example plus the id within the example's graph                      *)
local_context_ids(bt) ==
    LET sizes == Strict([b \in 1..Len(bt) |-> Len(bt[b].hidden)])
        cumulative_sizes(b) == Len(Concat(Strict([i \in 1..(b - 1) |-> bt[i].hidden])))
    IN Strict([b \in 1..Len(bt) |->
           Strict([c \in 1..Len(bt[b].lctx) |-> cumulative_sizes(b) + bt[b].lctx[c]])])

(* LocalArgumentPrediction._local_context_hidden: the hidden states of the *)
(* local context nodes, gathered from the flat node set of the batch       *)
LocalContextHidden(bt) ==
    LET flat == Concat(Strict([b \in 1..Len(bt) |-> bt[b].hidden]))
        ids == local_context_ids(bt)
    IN Strict([b \in 1..Len(bt) |->
           Strict([c \in 1..Len(ids[b]) |-> flat[ids[b][c] + 1]])])

(* A variant that pads both axes with 0.0.                                 *)
convert_ragged_logits_to_dense_pad_zero(logits) ==
    LET rows == Concat(logits)
        maxctx == SetMax({Len(rows[i]) : i \in 1..Len(rows)})
        maxargs == SetMax({Len(logits[b]) : b \in 1..Len(logits)})
    IN Strict([b \in 1..Len(logits) |->
           Strict([a \in 1..maxargs |->
               PadTo(IF a <= Len(logits[b]) THEN logits[b][a] ELSE <<>>, maxctx, Zero)])])

(* convert_ragged_logits_to_dense: the context axis is padded with -inf up *)
(* to the longest row of the batch, then the argument axis with 0.0        *)
convert_ragged_logits_to_dense(logits) ==
    LET rows == Concat(logits)
        maxctx == SetMax({Len(rows[i]) : i \in 1..Len(rows)})
        maxargs == SetMax({Len(logits[b]) : b \in 1..Len(logits)})
    IN Strict([b \in 1..Len(logits) |->
           Strict([a \in 1..maxargs |->
               IF a <= Len(logits[b])
               THEN PadTo(logits[b][a], maxctx, NegInf)
               ELSE Strict([c \in 1..maxctx |-> Zero])])])

(* the width of the last axis of a dense [batch, args, width] tensor       *)
Width(dense) ==
    SetMax({Len(dense[b][a]) : b \in 1..Len(dense), a \in 1..SetMax({Len(dense[i]) : i \in 1..Len(dense)})})

(* A variant that takes every GlobalId as available.                       *)
global_arguments_logits_mask_all_available(global_context_ids, global_context_size) ==
    Strict([b \in 1..Len(global_context_ids) |->
        Strict([g \in 1..global_context_size |-> Zero])])

(* GlobalArgumentPrediction._global_arguments_logits_mask: the log of the  *)
(* scatter_nd count of each GlobalId among the example's global_context_ids *)
global_arguments_logits_mask(global_context_ids, global_context_size) ==
    Strict([b \in 1..Len(global_context_ids) |->
        Strict([g \in 1..global_context_size |->
            Log(<<Cardinality({j \in 1..Len(global_context_ids[b]) :
                                  global_context_ids[b][j] = g - 1}), 1>>)])])

(* global_arguments_logits += tf.expand_dims(mask, axis=1): the widths of  *)
(* the two operands must be equal or one of them 1                         *)
MaskBroadcasts(logits, size) ==
    Width(logits) = size \/ Width(logits) = 1 \/ size = 1

(* the sum of the broadcast operands: an operand of width 1 is repeated    *)
(* over the width of the other one                                         *)
AddMask(logits, mask) ==
    Strict([b \in 1..Len(logits) |->
        Strict([a \in 1..Len(logits[b]) |->
            Strict([c \in 1..(IF Len(logits[b][a]) = 1 THEN Len(mask[b]) ELSE Len(logits[b][a])) |->
                LAdd(logits[b][a][IF Len(logits[b][a]) = 1 THEN 1 ELSE c],
                     mask[b][IF Len(mask[b]) = 1 THEN 1 ELSE c])])])])

(* A variant that shifts each pool by its own maximum before the shared    *)
(* norm is taken.                                                          *)
normalize_logits_per_pool_max(local_arguments_logits, global_arguments_logits) ==
    LET B == 1..Len(local_arguments_logits)
        A(b) == 1..Len(local_arguments_logits[b])
        Shift(t) == Strict([b \in B |-> Strict([a \in A(b) |->
                        Strict([c \in 1..Len(t[b][a]) |->
                            LSub(t[b][a][c], ReduceMax(t[b][a]))])])])
        local_shifted == Shift(local_arguments_logits)
        global_shifted == Shift(global_arguments_logits)
        norm == Strict([b \in B |-> Strict([a \in A(b) |->
                    LNeg(Log(RAdd(ReduceSumExp(local_shifted[b][a]),
                                  ReduceSumExp(global_shifted[b][a]))))])])
        Add(t) == Strict([b \in B |-> Strict([a \in A(b) |->
                      Strict([c \in 1..Len(t[b][a]) |-> LAdd(t[b][a][c], norm[b][a])])])])
    IN << Add(local_shifted), Add(global_shifted) >>

(* A variant that takes the maximum of the local pool alone.               *)
arguments_max_logit_local_only(local_arguments_logits, global_arguments_logits) ==
    Strict([b \in 1..Len(local_arguments_logits) |->
        Strict([a \in 1..Len(local_arguments_logits[b]) |->
            ReduceMax(local_arguments_logits[b][a])])])

(* GlobalArgumentPrediction._normalize_logits, arguments_max_logit: the    *)
(* maximum of the stacked maxima of the local and the global row of every  *)
(* [batch, argument] position                                              *)
arguments_max_logit(local_arguments_logits, global_arguments_logits) ==
    LET B == 1..Len(local_arguments_logits)
        A(b) == 1..Len(local_arguments_logits[b])
        local_arguments_max_logit ==
            Strict([b \in B |-> Strict([a \in A(b) |-> ReduceMax(local_arguments_logits[b][a])])])
        global_arguments_max_logit ==
            Strict([b \in B |-> Strict([a \in A(b) |-> ReduceMax(global_arguments_logits[b][a])])])
    IN Strict([b \in B |-> Strict([a \in A(b) |->
           LMax(local_arguments_max_logit[b][a], global_arguments_max_logit[b][a])])])

(* GlobalArgumentPrediction._normalize_logits: one maximum and one norm    *)
(* per [batch, argument] row, over the local and the global row together   *)
normalize_logits(local_arguments_logits, global_arguments_logits) ==
    LET B == 1..Len(local_arguments_logits)
        A(b) == 1..Len(local_arguments_logits[b])
        Sub(t, m) == Strict([b \in B |-> Strict([a \in A(b) |->
                        Strict([c \in 1..Len(t[b][a]) |-> LSub(t[b][a][c], m[b][a])])])])
        Add(t, m) == Strict([b \in B |-> Strict([a \in A(b) |->
                        Strict([c \in 1..Len(t[b][a]) |-> LAdd(t[b][a][c], m[b][a])])])])
        max_logit == arguments_max_logit(local_arguments_logits, global_arguments_logits)
        local_shifted == Sub(local_arguments_logits, max_logit)
        global_shifted == Sub(global_arguments_logits, max_logit)
        local_arguments_logits_norm ==
            Strict([b \in B |-> Strict([a \in A(b) |-> ReduceSumExp(local_shifted[b][a])])])
        global_arguments_logits_norm ==
            Strict([b \in B |-> Strict([a \in A(b) |-> ReduceSumExp(global_shifted[b][a])])])
        norm == Strict([b \in B |-> Strict([a \in A(b) |->
                    LNeg(Log(RAdd(local_arguments_logits_norm[b][a],
                                  global_arguments_logits_norm[b][a])))])])
    IN << Add(local_shifted, norm), Add(global_shifted, norm) >>

(* A variant that trims the global scores like the local ones instead of   *)
(* gathering them by id.                                                   *)
convert_logits_to_ragged_trim_only(logits, context_ids, arg_cnts, label) ==
    Strict([b \in 1..Len(logits) |->
        Strict([a \in 1..arg_cnts[b] |-> SubSeq(logits[b][a], 1, Len(context_ids[b]))])])

(* GlobalArgumentPrediction.convert_logits_to_ragged                       *)
convert_logits_to_ragged(logits, context_ids, arg_cnts, label) ==
    LET logits_ == Strict([b \in 1..Len(logits) |-> FromTensor(logits[b], arg_cnts[b])])
    IN Strict([b \in 1..Len(logits) |->
           Strict([a \in 1..Len(logits_[b]) |->
               IF label = "global"
               THEN Strict([j \in 1..Len(context_ids[b]) |-> logits_[b][a][context_ids[b][j] + 1]])
               ELSE FromTensor(logits_[b][a], Len(context_ids[b]))])])

(* GlobalArgumentPrediction.create_train_model applied to a batch          *)
TrainForward(bt, dyn, cos) ==
    LET B == 1..Len(bt)
        arg_cnts == Strict([b \in B |-> NumArgs(bt[b].tactic)])
        local_ids == Strict([b \in B |-> bt[b].lctx])
        global_ids == Strict([b \in B |-> bt[b].gids])
        local_raw == convert_ragged_logits_to_dense(
                         QueryKeyMul(Strict([b \in B |-> bt[b].ql]), LocalContextHidden(bt)))
        global_raw == convert_ragged_logits_to_dense(
                          QueryKeyMulGlobal(Strict([b \in B |-> bt[b].qg]), GlobalEmbeddings(global_ids), cos, Temp))
        mask == global_arguments_logits_mask(global_ids, GlobalSize)
        global_in == IF dyn THEN AddMask(global_raw, mask) ELSE global_raw
        normalized == normalize_logits(local_raw, global_in)
    IN IF dyn /\ ~MaskBroadcasts(global_raw, GlobalSize)
       THEN [err |-> TRUE]
       ELSE [err |-> FALSE,
             arg_cnts |-> arg_cnts,
             local_in |-> local_raw,
             global_raw |-> global_raw,
             mask |-> IF dyn THEN mask ELSE <<>>,
             global_in |-> global_in,
             max_logit |-> arguments_max_logit(local_raw, global_in),
             local_norm |-> normalized[1],
             global_norm |-> normalized[2],
             local_out |-> convert_logits_to_ragged(normalized[1], local_ids, arg_cnts, "local"),
             global_out |-> convert_logits_to_ragged(normalized[2], global_ids, arg_cnts, "global")]

-----------------------------------------------------------------------------
(* Losses.  y_true is the ragged [batch, None(args)] tensor of labels      *)
(* (the spurious axis of size 1 is dropped), -1 standing for None.         *)

(* A variant that pads the labels with 0.                                  *)
LabelsToTensor_pad_zero(y_true) ==
    LET maxargs == SetMax({Len(y_true[b]) : b \in 1..Len(y_true)})
    IN Strict([b \in 1..Len(y_true) |-> PadTo(y_true[b], maxargs, 0)])

(* y_true.to_tensor(default_value=-1)                                      *)
LabelsToTensor(y_true) ==
    LET maxargs == SetMax({Len(y_true[b]) : b \in 1..Len(y_true)})
    IN Strict([b \in 1..Len(y_true) |-> PadTo(y_true[b], maxargs, 0 - 1)])

(* tf.where(row != -1): the positions of a row that hold a label           *)
RECURSIVE Positions(_, _)
Positions(row, a) ==
    IF a > Len(row) THEN <<>>
    ELSE (IF row[a] # 0 - 1 THEN <<a>> ELSE <<>>) \o Positions(row, a + 1)

(* a failed call: tf raises InvalidArgumentError                           *)
Failed == [err |-> TRUE]
Ok(v) == [err |-> FALSE, val |-> v]

(* arguments_filter (module level): the labels that are not -1 and the     *)
(* score rows at their positions, flat over the batch; gather_nd fails on  *)
(* a position that y_pred does not have, and on any position at all when   *)
(* y_pred has no elements (no rows or an empty context)                    *)
arguments_filter(y_true, y_pred) ==
    LET arguments_tensor == LabelsToTensor(y_true)
        pos == Strict([b \in 1..Len(y_true) |-> Positions(arguments_tensor[b], 1)])
    IN IF Concat(pos) # <<>> /\ Concat(Concat(y_pred)) = <<>>
       THEN Failed
       ELSE IF \E b \in 1..Len(y_true) : \E k \in 1..Len(pos[b]) : pos[b][k] > Len(y_pred[b])
       THEN Failed
       ELSE Ok(<< Concat(Strict([b \in 1..Len(y_true) |->
                      Strict([k \in 1..Len(pos[b]) |-> arguments_tensor[b][pos[b][k]]])])),
                  Concat(Strict([b \in 1..Len(y_true) |->
                      Strict([k \in 1..Len(pos[b]) |-> y_pred[b][pos[b][k]]])])) >>)

(* tf.nn.sparse_softmax_cross_entropy_with_logits of one row               *)
SoftmaxCrossEntropy(label, row) == LSub(Log(ReduceSumExp(row)), row[label + 1])

(* LocalArgumentSparseCategoricalCrossentropy.call: the filter comes      *)
(* first, so its failure on an empty context with a labelled position is   *)
(* the failure of the loss; the zeros are returned when no position is     *)
(* labelled                                                                *)
LocalLossCall(y_true, y_pred) ==
    LET f == arguments_filter(y_true, y_pred)
    IN IF f.err THEN Failed
       ELSE IF Len(f.val[2]) * Width(y_pred) = 0
       THEN Ok(Strict([k \in 1..Len(f.val[1]) |-> Zero]))
       ELSE IF \E k \in 1..Len(f.val[1]) : f.val[1][k] + 1 > Len(f.val[2][k])
       THEN Failed
       ELSE Ok(Strict([k \in 1..Len(f.val[1]) |->
                   SoftmaxCrossEntropy(f.val[1][k], f.val[2][k])]))

(* row_splits of a ragged tensor: the number of rows before row b         *)
RowStart(ragged, b) == Len(Concat(SubSeq(ragged, 1, b - 1)))

(* tf.gather_nd(y_pred, positions) on a ragged y_pred: position (b, a) is  *)
(* row row_splits[b] + a of y_pred.values, whatever the number of rows of  *)
(* example b is; the gather fails on a row that y_pred.values does not     *)
(* have                                                                    *)
RaggedGatherNd(y_pred, pos) ==
    LET values == Concat(y_pred)
        flat(b, k) == RowStart(y_pred, b) + pos[b][k]
    IN IF \E b \in 1..Len(pos) : \E k \in 1..Len(pos[b]) : flat(b, k) > Len(values)
       THEN Failed
       ELSE Ok(Strict([b \in 1..Len(pos) |->
                   Strict([k \in 1..Len(pos[b]) |-> values[flat(b, k)]])]))

(* A variant that builds the ragged results without nrows: the examples    *)
(* after the last labelled one are missing.                                *)
ragged_arguments_filter_no_nrows(y_true, y_pred) ==
    LET arguments_tensor == LabelsToTensor(y_true)
        pos == Strict([b \in 1..Len(y_true) |-> Positions(arguments_tensor[b], 1)])
        nrows == SetMax({b \in 1..Len(y_true) : pos[b] # <<>>})
        gathered == RaggedGatherNd(y_pred, pos)
    IN IF gathered.err
       THEN Failed
       ELSE Ok(<< Strict([b \in 1..nrows |->
                      Strict([k \in 1..Len(pos[b]) |-> arguments_tensor[b][pos[b][k]]])]),
                  SubSeq(gathered.val, 1, nrows) >>)

(* ArgumentSparseCategoricalCrossentropy.arguments_filter: the labels that *)
(* are not -1 and the rows gathered at their positions, grouped by example *)
(* (from_value_rowids with nrows = batch size)                             *)
ragged_arguments_filter(y_true, y_pred) ==
    LET arguments_tensor == LabelsToTensor(y_true)
        pos == Strict([b \in 1..Len(y_true) |-> Positions(arguments_tensor[b], 1)])
        gathered == RaggedGatherNd(y_pred, pos)
    IN IF gathered.err
       THEN Failed
       ELSE Ok(<< Strict([b \in 1..Len(y_true) |->
                      Strict([k \in 1..Len(pos[b]) |-> arguments_tensor[b][pos[b][k]]])]),
                  gathered.val >>)

(* tf.gather(arguments_pred, arguments_true, batch_dims=2) on ragged       *)
(* tensors: the label of row t is entry row_starts[t] + label of the flat  *)
(* scores, whatever the length of row t is; the gather fails on an entry   *)
(* that the flat scores do not have                                        *)
RaggedBatchGather(arguments_pred, arguments_true) ==
    LET rows == Concat(arguments_pred)
        labels == Concat(arguments_true)
        flat_values == Concat(rows)
        flat(t) == RowStart(rows, t) + labels[t] + 1
        gathered == Strict([t \in 1..Len(labels) |-> flat_values[flat(t)]])
    IN IF \E t \in 1..Len(labels) : flat(t) > Len(flat_values)
       THEN Failed
       ELSE Ok(Strict([b \in 1..Len(arguments_true) |->
                   Strict([k \in 1..Len(arguments_true[b]) |->
                       gathered[RowStart(arguments_true, b) + k]])]))

(* A variant that returns the flat losses under either policy.             *)
ArgumentLossCall_always_flat(sum_loss_over_tactic, y_true, y_pred) ==
    LET f == ragged_arguments_filter(y_true, y_pred)
        gathered == RaggedBatchGather(f.val[2], f.val[1])
    IN IF f.err THEN Failed
       ELSE IF gathered.err THEN Failed
       ELSE Ok(Concat(Strict([b \in 1..Len(y_true) |->
                   Strict([k \in 1..Len(f.val[1][b]) |-> LNeg(gathered.val[b][k])])])))

(* A variant that does not flip the sign of the gathered log-probability.  *)
ArgumentLossCall_no_sign_flip(sum_loss_over_tactic, y_true, y_pred) ==
    LET f == ragged_arguments_filter(y_true, y_pred)
        gathered == RaggedBatchGather(f.val[2], f.val[1])
    IN IF f.err THEN Failed
       ELSE IF gathered.err THEN Failed
       ELSE IF sum_loss_over_tactic
       THEN Ok(Strict([b \in 1..Len(y_true) |-> ReduceSum(gathered.val[b])]))
       ELSE Ok(Concat(gathered.val))

(* ArgumentSparseCategoricalCrossentropy.call                              *)
ArgumentLossCall(sum_loss_over_tactic, y_true, y_pred) ==
    LET f == ragged_arguments_filter(y_true, y_pred)
        arguments_true == f.val[1]
        arguments_pred == f.val[2]
        gathered == RaggedBatchGather(arguments_pred, arguments_true)
        arg_losses == Strict([b \in 1..Len(y_true) |->
                          Strict([k \in 1..Len(arguments_true[b]) |->
                              LNeg(gathered.val[b][k])])])
    IN IF f.err THEN Failed
       ELSE IF gathered.err
       THEN Failed
       ELSE IF sum_loss_over_tactic
       THEN Ok(Strict([b \in 1..Len(y_true) |-> ReduceSum(arg_losses[b])]))
       ELSE Ok(Concat(arg_losses))

-----------------------------------------------------------------------------
(* Metrics.                                                                *)

(* sample_weight: None, or one weight per example                          *)
NoSampleWeight == [given |-> FALSE]
SampleWeight(w) == [given |-> TRUE, w |-> w]
WeightOf(sample_weight, i) == IF sample_weight.given THEN sample_weight.w[i] ELSE 1

RECURSIVE SumOver(_)
SumOver(s) == IF s = <<>> THEN 0 ELSE Head(s) + SumOver(Tail(s))

(* super().update_state(arguments_true, arguments_pred, sample_weight) on   *)
(* the flat per-argument matches: the labels and the scores are ragged at  *)
(* this call, and keras takes a dense sample weight only with dense        *)
(* inputs, so a given sample weight raises TypeError; without one every    *)
(* match counts once                                                       *)
MatchesUpdate(state, matches, sample_weight) ==
    IF sample_weight.given
    THEN Failed
    ELSE Ok([total |-> state.total + SumOver(matches),
             count |-> state.count + Len(matches)])

(* A variant that pads the context axis with 0.0.                          *)
ArgumentAccuracyUpdate_pad_zero(state, y_true, y_pred, sample_weight) ==
    LET f == ragged_arguments_filter(y_true, y_pred)
        labels == Concat(f.val[1])
        rows == Concat(f.val[2])
        width == SetMax({Len(rows[k]) : k \in 1..Len(rows)})
        dense == Strict([k \in 1..Len(rows) |-> PadTo(rows[k], width, Zero)])
        matches == Strict([k \in 1..Len(rows) |-> IF ArgMax(dense[k]) = labels[k] THEN 1 ELSE 0])
    IN IF f.err THEN Failed
       ELSE IF width > 0
       THEN MatchesUpdate(state, matches, sample_weight)
       ELSE Ok(state)

(* ArgumentSparseCategoricalAccuracy.update_state: the (total, count) pair *)
(* of the keras mean after one update; the context axis is padded with     *)
(* -inf and nothing is updated when it is empty; a dense sample weight     *)
(* makes the update of a non-empty context fail                            *)
ArgumentAccuracyUpdate(state, y_true, y_pred, sample_weight) ==
    LET f == ragged_arguments_filter(y_true, y_pred)
        labels == Concat(f.val[1])
        rows == Concat(f.val[2])
        width == SetMax({Len(rows[k]) : k \in 1..Len(rows)})
        dense == Strict([k \in 1..Len(rows) |-> PadTo(rows[k], width, NegInf)])
        matches == Strict([k \in 1..Len(rows) |-> IF ArgMax(dense[k]) = labels[k] THEN 1 ELSE 0])
    IN IF f.err THEN Failed
       ELSE IF width > 0
       THEN MatchesUpdate(state, matches, sample_weight)
       ELSE Ok(state)

(* RaggedTensor.to_tensor(default_value) of a [batch, None, None] tensor   *)
RaggedToTensor(ragged, fill) ==
    LET rows == Concat(ragged)
        width == SetMax({Len(rows[i]) : i \in 1..Len(rows)})
        maxargs == SetMax({Len(ragged[b]) : b \in 1..Len(ragged)})
    IN Strict([b \in 1..Len(ragged) |->
           Strict([a \in 1..maxargs |->
               IF a <= Len(ragged[b]) THEN PadTo(ragged[b][a], width, fill)
               ELSE Strict([c \in 1..width |-> fill])])])

(* ragged_logits: the rows of the valid argument positions; a dummy        *)
(* context of one -inf score when the context axis is empty                *)
ragged_logits(y_true, y_pred) ==
    IF Width(y_pred) = 0
    THEN Strict([b \in 1..Len(y_true) |-> Strict([a \in 1..Len(y_true[b]) |-> <<NegInf>>])])
    ELSE Strict([b \in 1..Len(y_true) |-> FromTensor(y_pred[b], Len(y_true[b]))])

(* tf.keras.metrics.sparse_categorical_accuracy                            *)
SparseCategoricalAccuracy(label, logits) == IF ArgMax(logits) = label THEN 1 ELSE 0

(* GlobalArgumentModel.compute_metrics: the per-example sequence accuracy  *)
(* and strict accuracy                                                     *)
ArgTrueIsLocal(l, g) == l >= g
ArgTrueIx(l, g) == IF l >= g THEN l ELSE g
ArgPredIsLocal(lrow, grow) == LGeq(ReduceMax(lrow), ReduceMax(grow))
ArgPredIx(lrow, grow) ==
    IF LGeq(ReduceMax(lrow), ReduceMax(grow)) THEN ArgMax(lrow) ELSE ArgMax(grow)

(* A variant that compares the indices only.                               *)
SeqArgAccuracy_index_only(local_true, global_true, local_logits, global_logits) ==
    IF \A a \in 1..Len(local_true) :
           ArgTrueIx(local_true[a], global_true[a])
               = ArgPredIx(local_logits[a], global_logits[a])
    THEN 1 ELSE 0

(* A variant that skips the positions without a label.                     *)
SeqArgAccuracy_skip_unfilled(local_true, global_true, local_logits, global_logits) ==
    LET A == {a \in 1..Len(local_true) : local_true[a] # 0 - 1 \/ global_true[a] # 0 - 1}
    IN IF \A a \in A :
              /\ ArgTrueIsLocal(local_true[a], global_true[a])
                     = ArgPredIsLocal(local_logits[a], global_logits[a])
              /\ ArgTrueIx(local_true[a], global_true[a])
                     = ArgPredIx(local_logits[a], global_logits[a])
       THEN 1 ELSE 0

(* A variant that counts a sequence without positions as incorrect.        *)
SeqArgAccuracy_needs_position(local_true, global_true, local_logits, global_logits) ==
    IF /\ Len(local_true) > 0
       /\ \A a \in 1..Len(local_true) :
              /\ ArgTrueIsLocal(local_true[a], global_true[a])
                     = ArgPredIsLocal(local_logits[a], global_logits[a])
              /\ ArgTrueIx(local_true[a], global_true[a])
                     = ArgPredIx(local_logits[a], global_logits[a])
    THEN 1 ELSE 0

SeqArgAccuracy(local_true, global_true, local_logits, global_logits) ==
    LET A == 1..Len(local_true)
        is_local == \A a \in A :
            ArgTrueIsLocal(local_true[a], global_true[a])
                = ArgPredIsLocal(local_logits[a], global_logits[a])
        ix == \A a \in A :
            ArgTrueIx(local_true[a], global_true[a])
                = ArgPredIx(local_logits[a], global_logits[a])
    IN IF is_local /\ ix THEN 1 ELSE 0

compute_metrics(tactic, tactic_logits, local_arguments, global_arguments, local_arguments_logits, global_arguments_logits) ==
    LET B == 1..Len(tactic)
        local_logits == ragged_logits(local_arguments,
                                      RaggedToTensor(local_arguments_logits, NegInf))
        global_logits == ragged_logits(global_arguments,
                                       RaggedToTensor(global_arguments_logits, NegInf))
        tactic_accuracy == Strict([b \in B |-> SparseCategoricalAccuracy(tactic[b], tactic_logits[b])])
        seq_arg_accuracy == Strict([b \in B |->
            SeqArgAccuracy(local_arguments[b], global_arguments[b],
                           local_logits[b], global_logits[b])])
    IN [seq |-> seq_arg_accuracy,
        strict |-> Strict([b \in B |-> tactic_accuracy[b] * seq_arg_accuracy[b]])]

(* A variant that keeps the values of the last batch only.                 *)
MeanUpdate_last_batch(state, values, sample_weight) ==
    [total |-> SumOver(Strict([i \in 1..Len(values) |-> values[i] * WeightOf(sample_weight, i)])),
     count |-> SumOver(Strict([i \in 1..Len(values) |-> WeightOf(sample_weight, i)]))]

(* tf.keras.metrics.Mean.update_state: total and count grow by the         *)
(* weighted sum of the values and by the sum of the weights (the number of *)
(* values without sample weights)                                          *)
MeanUpdate(state, values, sample_weight) ==
    [total |-> state.total
               + SumOver(Strict([i \in 1..Len(values) |-> values[i] * WeightOf(sample_weight, i)])),
     count |-> state.count
               + SumOver(Strict([i \in 1..Len(values) |-> WeightOf(sample_weight, i)]))]

(* tf.keras.metrics.Mean.result: total / count, 0 when the count is 0      *)
MeanResult(state) == IF state.count = 0 THEN <<0, 1>> ELSE RNorm(state.total, state.count)

(* tf.keras.metrics.Mean.reset_state                                       *)
ZeroMean == [total |-> 0, count |-> 0]

(* the accumulators of mixed_metrics after construction                    *)
MixedMetrics == [seq |-> ZeroMean, strict |-> ZeroMean]

(* A variant that leaves the sample weights out of the update of           *)
(* strict_accuracy.                                                        *)
MixedUpdate_unweighted_strict(state, values, sample_weight) ==
    [seq |-> MeanUpdate(state.seq, values.seq, sample_weight),
     strict |-> MeanUpdate(state.strict, values.strict, NoSampleWeight)]

(* the two update_state calls that end compute_metrics                     *)
MixedUpdate(state, values, sample_weight) ==
    [seq |-> MeanUpdate(state.seq, values.seq, sample_weight),
     strict |-> MeanUpdate(state.strict, values.strict, sample_weight)]

(* the per-example values of one batch with their weights                  *)
Weighted(values, sample_weight) ==
    Strict([i \in 1..Len(values.seq) |->
        [seq |-> values.seq[i], strict |-> values.strict[i], w |-> WeightOf(sample_weight, i)]])

(* _local_arguments_pred: the arg-max of every row, zeros when the context *)
(* axis is empty                                                           *)
local_arguments_pred(y_true, y_pred) ==
    Strict([b \in 1..Len(y_true) |->
        Strict([a \in 1..Len(y_true[b]) |->
            IF Width(y_pred) > 0 THEN ArgMax(y_pred[b][a]) ELSE 0])])

(* LocalArgumentModel.compute_metrics: the per-example values given to the *)
(* two accumulators; the labels are padded with 0                          *)
local_compute_metrics(tactic, tactic_logits, local_arguments, local_arguments_logits) ==
    LET B == 1..Len(tactic)
        maxargs == SetMax({Len(local_arguments[b]) : b \in B})
        local_arguments_true == Strict([b \in B |-> PadTo(local_arguments[b], maxargs, 0)])
        pred == local_arguments_pred(local_arguments_true, local_arguments_logits)
        arguments_seq_accuracy == Strict([b \in B |->
            IF \A a \in 1..maxargs : local_arguments_true[b][a] = pred[b][a] THEN 1 ELSE 0])
        arguments_seq_mask == Strict([b \in B |->
            IF \A a \in 1..maxargs : local_arguments_true[b][a] > 0 - 1 THEN 1 ELSE 0])
    IN [seq |-> Strict([b \in B |-> arguments_seq_mask[b] * arguments_seq_accuracy[b]]),
        strict |-> Strict([b \in B |-> arguments_seq_mask[b] * arguments_seq_accuracy[b]
                                        * SparseCategoricalAccuracy(tactic[b], tactic_logits[b])])]

-----------------------------------------------------------------------------
(* The inputs: batches of proof states with their ground truth and the     *)
(* outputs of the external heads.                                          *)

None == 0 - 1

(* the (local, global) label pairs of one argument position: at most one   *)
(* of the two is not None, and a label indexes the example's own context   *)
LabelPairs(lctx, gids) ==
    {<<l, None>> : l \in None..(Len(lctx) - 1)} \cup {<<None, g>> : g \in 0..(Len(gids) - 1)}

ExampleSet(Qs, labelled, TLs) ==
    UNION { { [tactic |-> t, tlogits |-> tl, hidden |-> NodeHidden,
               lctx |-> lc, gids |-> gc,
               ql |-> Strict([a \in 1..NumArgs(t) |-> Vec(qs[a][1])]),
               qg |-> Strict([a \in 1..NumArgs(t) |-> Vec(qs[a][2])]),
               largs |-> Strict([a \in 1..NumArgs(t) |-> labs[a][1]]),
               gargs |-> Strict([a \in 1..NumArgs(t) |-> labs[a][2]])] :
              qs \in [1..NumArgs(t) -> Qs \X Qs],
              labs \in [1..NumArgs(t) ->
                          IF labelled THEN LabelPairs(lc, gc) ELSE {<<None, None>>}],
              tl \in TLs } :
            t \in Tactics, lc \in LocalContexts, gc \in GlobalContexts }

RECURSIVE TotalArgs(_)
TotalArgs(bt) == IF bt = <<>> THEN 0 ELSE NumArgs(Head(bt).tactic) + TotalArgs(Tail(bt))

BatchesOver(E, n) == {bt \in [1..n -> E] : TotalArgs(bt) <= MaxBatchArgs}

(* a batch of one example varies everything; longer batches vary the       *)
(* shapes and either the labels or the queries                             *)
Batches ==
    BatchesOver(ExampleSet(QueryVals, TRUE, {TacticLogits(t) : t \in Tactics}), 1)
    \cup UNION { BatchesOver(ExampleSet(DefaultQueries, TRUE, {DefaultTacticLogits}), n)
                 \cup BatchesOver(ExampleSet(QueryVals, FALSE, {DefaultTacticLogits}), n) :
                 n \in 2..MaxBatch }

y_tactic(bt) == Strict([b \in 1..Len(bt) |-> bt[b].tactic])
y_tactic_logits(bt) == Strict([b \in 1..Len(bt) |-> bt[b].tlogits])
y_local(bt) == Strict([b \in 1..Len(bt) |-> bt[b].largs])
y_global(bt) == Strict([b \in 1..Len(bt) |-> bt[b].gargs])

-----------------------------------------------------------------------------
(* The training step of the local+global task on one batch.                *)

Idle == <<>>

Init ==
    /\ pc = "input"
    /\ batch \in Batches
    /\ cfg \in [dynamic_global_context : BOOLEAN, global_cosine_similarity : BOOLEAN]
    /\ fwd = Idle
    /\ loss = Idle
    /\ acc = Idle
    /\ met = Idle
    /\ mixed = MixedMetrics
    /\ seen = <<>>

(* the forward pass of the model built by create_train_model               *)
Forward ==
    /\ pc = "input"
    /\ fwd' = TrainForward(batch, cfg.dynamic_global_context, cfg.global_cosine_similarity)
    /\ pc' = IF fwd'.err THEN "error" ELSE "forward"
    /\ UNCHANGED <<batch, cfg, loss, acc, met, mixed, seen>>

(* tf.keras.losses.SparseCategoricalCrossentropy(from_logits=True).call:   *)
(* one value per example                                                   *)
TacticLossCall(y_true, y_pred) ==
    Strict([b \in 1..Len(y_true) |-> SoftmaxCrossEntropy(y_true[b], y_pred[b])])

(* GlobalArgumentPrediction.loss: the tactic loss on the tactic logits and *)
(* the two argument losses on the normalized ragged outputs                *)
Loss ==
    /\ pc = "forward"
    /\ \E s \in BOOLEAN :
        loss' = [sum_loss_over_tactic |-> s,
                 tactic |-> TacticLossCall(y_tactic(batch), y_tactic_logits(batch)),
                 local |-> ArgumentLossCall(s, y_local(batch), fwd.local_out),
                 global |-> ArgumentLossCall(s, y_global(batch), fwd.global_out)]
    /\ pc' = "loss"
    /\ UNCHANGED <<batch, cfg, fwd, acc, met, mixed, seen>>

(* GlobalArgumentModel.compute_metrics on the outputs: the compiled metrics *)
(* of GlobalArgumentPrediction.metrics (one per-argument accuracy per      *)
(* output) are updated by super().compute_metrics, then the two sequence   *)
(* accuracies are computed                                                 *)
MetricsStep(from, to) ==
    /\ pc = from
    /\ acc' = [local |-> ArgumentAccuracyUpdate(ZeroMean,
                                                y_local(batch), fwd.local_out, NoSampleWeight),
               global |-> ArgumentAccuracyUpdate(ZeroMean,
                                                 y_global(batch), fwd.global_out, NoSampleWeight)]
    /\ met' = compute_metrics(y_tactic(batch), y_tactic_logits(batch),
                              y_local(batch), y_global(batch),
                              fwd.local_out, fwd.global_out)
    /\ mixed' = MixedUpdate(mixed, met', NoSampleWeight)
    /\ seen' = Append(seen, Weighted(met', NoSampleWeight))
    /\ pc' = to
    /\ UNCHANGED <<batch, cfg, fwd, loss>>

Metrics == MetricsStep("forward", "metrics")

Next == Forward \/ Loss \/ Metrics

Spec == Init /\ [][Next]_vars

-----------------------------------------------------------------------------
(* Properties of the training step.                                        *)

Forwarded == pc \in {"forward", "loss", "metrics"}
Examples == 1..Len(batch)
ArgPositions(b) == 1..NumArgs(batch[b].tactic)

HasFinite(row) == \E c \in 1..Len(row) : IsFinite(row[c])
ProbSum(lrow, grow) == RAdd(ReduceSumExp(lrow), ReduceSumExp(grow))
One == <<1, 1>>

(* C1: for every row of the tensors given to _normalize_logits that holds  *)
(* a finite raw score in its local or its global part, the exponentials of *)
(* the normalized local and global scores of the row sum to exactly 1.     *)
C1_NormalizedSumsToOne ==
    Forwarded =>
        \A b \in Examples : \A a \in 1..Len(fwd.local_in[b]) :
            (HasFinite(fwd.local_in[b][a]) \/ HasFinite(fwd.global_in[b][a]))
                => ProbSum(fwd.local_norm[b][a], fwd.global_norm[b][a]) = One

(* a real argument position whose global row is partly masked to -inf and  *)
(* whose local and global maxima differ                                    *)
C1_Witness ==
    /\ pc = "forward"
    /\ \E b \in Examples : \E a \in ArgPositions(b) :
        /\ \E c \in 1..Len(fwd.global_in[b][a]) : fwd.global_in[b][a][c] = NegInf
        /\ HasFinite(fwd.global_in[b][a])
        /\ HasFinite(fwd.local_in[b][a])
        /\ ReduceMax(fwd.local_in[b][a]) # ReduceMax(fwd.global_in[b][a])
        /\ ProbSum(fwd.local_norm[b][a], fwd.global_norm[b][a]) = One

Unavailable(b) == {g \in GlobalIds : \A j \in 1..Len(batch[b].gids) : batch[b].gids[j] # g}
HasCandidate(b) == Len(batch[b].lctx) > 0 \/ Len(batch[b].gids) > 0

(* C2: with dynamic_global_context, at every argument position the       *)
(* normalized log-score of every GlobalId that is not in the example's     *)
(* global_context_ids is -inf.                                             *)
C2_UnavailableIsZero ==
    (Forwarded /\ cfg.dynamic_global_context) =>
        \A b \in Examples : \A a \in ArgPositions(b) : \A g \in Unavailable(b) :
            fwd.global_norm[b][a][g + 1] = NegInf

(* an argument position of an example with an empty local context and no   *)
(* available GlobalId: the scores of the unavailable ids are NaN           *)
C2_Witness ==
    /\ pc = "forward"
    /\ cfg.dynamic_global_context
    /\ \E b \in Examples : \E a \in ArgPositions(b) :
        /\ ~HasCandidate(b)
        /\ \A g \in Unavailable(b) : IsNaN(fwd.global_norm[b][a][g + 1])

NoLabel == 0 - 1
LocalLabel(b, a) == batch[b].largs[a]
GlobalLabel(b, a) == batch[b].gargs[a]

(* the values of a row at the positions that hold a label, in order        *)
RECURSIVE Labelled(_, _, _)
Labelled(labels, values, a) ==
    IF a > Len(labels) THEN <<>>
    ELSE (IF labels[a] # NoLabel THEN <<values[a]>> ELSE <<>>)
         \o Labelled(labels, values, a + 1)

(* the result of a loss whose per-position values are per[b][a]            *)
Aggregated(sum_over_tactic, labels, per) ==
    IF sum_over_tactic
    THEN [b \in Examples |-> ReduceSum(Labelled(labels[b], per[b], 1))]
    ELSE Concat([b \in Examples |-> Labelled(labels[b], per[b], 1)])

(* the normalized log-probability of the true candidate of a position      *)
TrueLocalLogProb(b, a) == fwd.local_norm[b][a][LocalLabel(b, a) + 1]
TrueGlobalLogProbById(b, a) == fwd.global_norm[b][a][GlobalLabel(b, a) + 1]
TrueGlobalLogProbByIndex(b, a) ==
    fwd.global_norm[b][a][batch[b].gids[GlobalLabel(b, a) + 1] + 1]

NegLocalLogProbs ==
    [b \in Examples |-> [a \in ArgPositions(b) |->
        IF LocalLabel(b, a) # NoLabel THEN LNeg(TrueLocalLogProb(b, a)) ELSE Zero]]
NegGlobalLogProbsById ==
    [b \in Examples |-> [a \in ArgPositions(b) |->
        IF GlobalLabel(b, a) # NoLabel THEN LNeg(TrueGlobalLogProbById(b, a)) ELSE Zero]]
NegGlobalLogProbsByIndex ==
    [b \in Examples |-> [a \in ArgPositions(b) |->
        IF GlobalLabel(b, a) # NoLabel THEN LNeg(TrueGlobalLogProbByIndex(b, a)) ELSE Zero]]

(* C4 as stated: the loss of a position with a label is the negative       *)
(* normalized log-probability of the true candidate, the local candidate   *)
(* at the labelled index of local_context or else the global candidate     *)
(* whose GlobalId is the global label.                                     *)
C4_LossIsNegLogProbById ==
    pc = "loss" =>
        /\ loss.local = Ok(Aggregated(loss.sum_loss_over_tactic, y_local(batch), NegLocalLogProbs))
        /\ loss.global = Ok(Aggregated(loss.sum_loss_over_tactic, y_global(batch),
                                       NegGlobalLogProbsById))

(* What the code computes: the loss of a position with a global label is   *)
(* the negative normalized log-probability of the candidate that stands at *)
(* the position given by the label in the example's global_context_ids,    *)
(* that is of the GlobalId global_context_ids[label].                      *)
LossIsNegLogProbByIndex ==
    pc = "loss" =>
        /\ loss.local = Ok(Aggregated(loss.sum_loss_over_tactic, y_local(batch), NegLocalLogProbs))
        /\ loss.global = Ok(Aggregated(loss.sum_loss_over_tactic, y_global(batch),
                                       NegGlobalLogProbsByIndex))

(* a global label g for which global_context_ids[g] is another id: the     *)
(* loss is that of the other id and differs from that of the id g          *)
C4_Witness ==
    /\ pc = "loss"
    /\ ~loss.sum_loss_over_tactic
    /\ \E b \in Examples : \E a \in ArgPositions(b) :
        /\ GlobalLabel(b, a) # NoLabel
        /\ batch[b].gids[GlobalLabel(b, a) + 1] # GlobalLabel(b, a)
        /\ TrueGlobalLogProbByIndex(b, a) # TrueGlobalLogProbById(b, a)
        /\ IsFinite(TrueGlobalLogProbByIndex(b, a))
        /\ loss.global = Ok(Aggregated(FALSE, y_global(batch), NegGlobalLogProbsByIndex))

(* the loss of one position: minus the output score at the label           *)
OutputLosses(labels, out) ==
    [b \in Examples |-> [a \in ArgPositions(b) |->
        IF labels[b][a] # NoLabel THEN LNeg(out[b][a][labels[b][a] + 1]) ELSE Zero]]
NumLabelled(labels) ==
    Cardinality({<<b, a>> \in Examples \X (1..MaxBatchArgs) :
                    a <= Len(labels[b]) /\ labels[b][a] # NoLabel})

(* C5: with sum_loss_over_tactic the loss is one value per example, the    *)
(* sum of the losses of its positions with a label (0 when it has none);   *)
(* without, it is one value per position with a label of the whole batch,  *)
(* in batch and position order.                                            *)
C5_Aggregation ==
    pc = "loss" =>
        /\ ~loss.local.err /\ ~loss.global.err
        /\ loss.local.val = Aggregated(loss.sum_loss_over_tactic, y_local(batch),
                                       OutputLosses(y_local(batch), fwd.local_out))
        /\ loss.global.val = Aggregated(loss.sum_loss_over_tactic, y_global(batch),
                                        OutputLosses(y_global(batch), fwd.global_out))
        /\ Len(loss.local.val) = IF loss.sum_loss_over_tactic THEN Len(batch)
                                 ELSE NumLabelled(y_local(batch))
        /\ Len(loss.global.val) = IF loss.sum_loss_over_tactic THEN Len(batch)
                                  ELSE NumLabelled(y_global(batch))
        /\ loss.sum_loss_over_tactic =>
             \A b \in Examples :
                /\ (\A a \in ArgPositions(b) : LocalLabel(b, a) = NoLabel)
                       => loss.local.val[b] = Zero
                /\ (\A a \in ArgPositions(b) : GlobalLabel(b, a) = NoLabel)
                       => loss.global.val[b] = Zero

(* the scenario of two examples, one with two labelled positions and one   *)
(* with none, under the sum policy                                         *)
C5_Witness ==
    /\ pc = "loss"
    /\ loss.sum_loss_over_tactic
    /\ Len(batch) = 2
    /\ NumArgs(batch[1].tactic) = 2
    /\ \A a \in ArgPositions(1) : LocalLabel(1, a) # NoLabel
    /\ NumArgs(batch[2].tactic) = 0
    /\ loss.local.val[1] = LAdd(LNeg(fwd.local_out[1][1][LocalLabel(1, 1) + 1]),
                                LNeg(fwd.local_out[1][2][LocalLabel(1, 2) + 1]))
    /\ loss.local.val[1] # Zero
    /\ loss.local.val[2] = Zero

(* the positions of an example that hold a label of the given kind         *)
LabelledAt(labels, b) == {a \in ArgPositions(b) : labels[b][a] # NoLabel}

(* minus the log-probability of the ground-truth arguments of an example   *)
(* from its position a on: the sum over the positions with a label of the  *)
(* output score of the true candidate                                      *)
RECURSIVE SeqNegLogProb(_, _)
SeqNegLogProb(b, a) ==
    IF a > NumArgs(batch[b].tactic) THEN Zero
    ELSE LAdd(IF LocalLabel(b, a) # NoLabel
                  THEN LNeg(fwd.local_out[b][a][LocalLabel(b, a) + 1])
              ELSE IF GlobalLabel(b, a) # NoLabel
                  THEN LNeg(fwd.global_out[b][a][GlobalLabel(b, a) + 1])
              ELSE Zero,
              SeqNegLogProb(b, a + 1))

(* C6: under the sum policy every position with a label is selected by     *)
(* exactly one of the two filters and a position without a label by none,  *)
(* and the local loss plus the global loss of an example is minus the      *)
(* log-probability of its sequence of ground-truth arguments.              *)
C6_SumIsSequenceNegLogProb ==
    (pc = "loss" /\ loss.sum_loss_over_tactic) =>
        LET fl == ragged_arguments_filter(y_local(batch), fwd.local_out)
            fg == ragged_arguments_filter(y_global(batch), fwd.global_out)
        IN /\ ~fl.err /\ ~fg.err /\ ~loss.local.err /\ ~loss.global.err
           /\ \A b \in Examples :
                /\ Len(fl.val[1][b]) + Len(fg.val[1][b])
                       = Cardinality({a \in ArgPositions(b) :
                             LocalLabel(b, a) # NoLabel \/ GlobalLabel(b, a) # NoLabel})
                /\ fl.val[1][b] = Labelled(batch[b].largs, batch[b].largs, 1)
                /\ fg.val[1][b] = Labelled(batch[b].gargs, batch[b].gargs, 1)
                /\ LAdd(loss.local.val[b], loss.global.val[b]) = SeqNegLogProb(b, 1)

(* an example with one local and one global ground-truth argument          *)
C6_Witness ==
    /\ pc = "loss"
    /\ loss.sum_loss_over_tactic
    /\ \E b \in Examples :
        /\ LabelledAt(y_local(batch), b) # {}
        /\ LabelledAt(y_global(batch), b) # {}
        /\ loss.local.val[b] # Zero
        /\ loss.global.val[b] # Zero
        /\ LAdd(loss.local.val[b], loss.global.val[b]) = SeqNegLogProb(b, 1)

(* the first highest score of a row is at index i (from 0)                 *)
FirstMax(row, i) ==
    /\ i + 1 \in 1..Len(row)
    /\ \A c \in 1..Len(row) : LGeq(row[i + 1], row[c])
    /\ \A c \in 1..i : LGt(row[i + 1], row[c])

(* the top candidate of the two pools is the local one at index i: it is   *)
(* the first highest local score and no global score is higher             *)
LocalTop(lrow, grow, i) ==
    FirstMax(lrow, i) /\ \A c \in 1..Len(grow) : LGeq(lrow[i + 1], grow[c])

(* the top candidate of the two pools is the global one at index i: it is  *)
(* the first highest global score and higher than every local score        *)
GlobalTop(lrow, grow, i) ==
    FirstMax(grow, i) /\ \A c \in 1..Len(lrow) : LGt(grow[i + 1], lrow[c])

PositionCorrect(b, a) ==
    \/ LocalLabel(b, a) # NoLabel
         /\ LocalTop(fwd.local_out[b][a], fwd.global_out[b][a], LocalLabel(b, a))
    \/ LocalLabel(b, a) = NoLabel /\ GlobalLabel(b, a) # NoLabel
         /\ GlobalTop(fwd.local_out[b][a], fwd.global_out[b][a], GlobalLabel(b, a))

TacticCorrect(b) == FirstMax(batch[b].tlogits, batch[b].tactic)

(* C8: the strict accuracy of an example is 1 if and only if the arg-max   *)
(* tactic is the ground-truth tactic and at every argument position the    *)
(* top candidate of the two pools (the local pool on equal scores) is in   *)
(* the ground-truth pool at the ground-truth index; otherwise it is 0.     *)
C8_StrictAccuracy ==
    pc = "metrics" =>
        \A b \in Examples :
            met.strict[b] = IF TacticCorrect(b) /\ \A a \in ArgPositions(b) : PositionCorrect(b, a)
                            THEN 1 ELSE 0

(* a prediction with the right tactic whose top candidates all have the    *)
(* ground-truth index, one of them in the other pool                       *)
C8_Witness ==
    /\ pc = "metrics"
    /\ \E b \in Examples :
        /\ TacticCorrect(b)
        /\ \E a \in ArgPositions(b) :
            /\ LocalLabel(b, a) # NoLabel
            /\ GlobalTop(fwd.local_out[b][a], fwd.global_out[b][a], LocalLabel(b, a))
            /\ \A o \in ArgPositions(b) \ {a} : PositionCorrect(b, o)
        /\ met.strict[b] = 0

(* the positions with a label of one output whose label satisfies Top      *)
CombinedHits(kind) ==
    {<<b, a>> \in Examples \X (1..MaxBatchArgs) :
        /\ a \in ArgPositions(b)
        /\ IF kind = "local"
           THEN LocalLabel(b, a) # NoLabel
                /\ LocalTop(fwd.local_out[b][a], fwd.global_out[b][a], LocalLabel(b, a))
           ELSE GlobalLabel(b, a) # NoLabel
                /\ GlobalTop(fwd.local_out[b][a], fwd.global_out[b][a], GlobalLabel(b, a))}

OwnPoolHits(kind) ==
    {<<b, a>> \in Examples \X (1..MaxBatchArgs) :
        /\ a \in ArgPositions(b)
        /\ IF kind = "local"
           THEN LocalLabel(b, a) # NoLabel /\ FirstMax(fwd.local_out[b][a], LocalLabel(b, a))
           ELSE GlobalLabel(b, a) # NoLabel /\ FirstMax(fwd.global_out[b][a], GlobalLabel(b, a))}

(* C10 as stated: the per-argument accuracy counts the positions with a    *)
(* label, and as correct those where the arg-max over the combined local   *)
(* and global scores is the ground-truth candidate.                        *)
C10_AccuracyOverCombinedPools ==
    pc = "metrics" =>
        /\ acc.local = Ok([total |-> Cardinality(CombinedHits("local")),
                           count |-> NumLabelled(y_local(batch))])
        /\ acc.global = Ok([total |-> Cardinality(CombinedHits("global")),
                            count |-> NumLabelled(y_global(batch))])

(* C10 amended: the per-argument accuracy of an output counts the          *)
(* positions with a label of that output, and as correct those where the   *)
(* arg-max over the scores of that output's own pool is the label.         *)
C10_AccuracyOverOwnPool ==
    pc = "metrics" =>
        /\ acc.local = Ok([total |-> Cardinality(OwnPoolHits("local")),
                           count |-> NumLabelled(y_local(batch))])
        /\ acc.global = Ok([total |-> Cardinality(OwnPoolHits("global")),
                            count |-> NumLabelled(y_global(batch))])

(* a local label that is the best local candidate while a global candidate *)
(* scores higher, next to a position without a label                       *)
C10_Witness ==
    /\ pc = "metrics"
    /\ \E b \in Examples : \E a \in ArgPositions(b) :
        /\ LocalLabel(b, a) # NoLabel
        /\ FirstMax(fwd.local_out[b][a], LocalLabel(b, a))
        /\ ~LocalTop(fwd.local_out[b][a], fwd.global_out[b][a], LocalLabel(b, a))
    /\ NumLabelled(y_local(batch)) < TotalArgs(batch)
    /\ acc.local.val.total > Cardinality(CombinedHits("local"))

-----------------------------------------------------------------------------
(* compute_metrics on arbitrary labels and scores.                         *)

MaxPool == 2

MetricScores == {NegInf, Score(0), Score(1)}
CoarseScores == {NegInf, Score(1)}
MetricLabels == NoLabel..1
CoarseLabels == NoLabel..0

(* the examples of tactic t with their labels and their two outputs: one   *)
(* row of scores per argument position, of the width of the example's pool *)
ScoredExamples(t, labels, scores, miss) ==
    UNION { { [tactic |-> t, tlogits |-> tl,
               largs |-> Strict([a \in 1..NumArgs(t) |-> labs[a][1]]),
               gargs |-> Strict([a \in 1..NumArgs(t) |-> labs[a][2]]),
               local_out |-> lo, global_out |-> go] :
              tl \in {TacticLogits(t)}
                        \cup (IF miss THEN {TacticLogits((t + 1) % Len(TacticNumArgs))} ELSE {}),
              labs \in [1..NumArgs(t) -> labels \X labels],
              lo \in [1..NumArgs(t) -> [1..wl -> scores]],
              go \in [1..NumArgs(t) -> [1..wg -> scores]] } :
            wl \in 0..MaxPool, wg \in 0..MaxPool }

(* one example with one position varies everything, also a wrong tactic;   *)
(* batches with two positions vary coarser labels and scores               *)
ScoredBatches ==
    {<<e>> : e \in ScoredExamples(0, MetricLabels, MetricScores, TRUE)
                   \cup ScoredExamples(1, MetricLabels, MetricScores, TRUE)
                   \cup ScoredExamples(2, CoarseLabels, CoarseScores, FALSE)}
    \cup {<<e1, e2>> : e1 \in ScoredExamples(1, CoarseLabels, CoarseScores, FALSE),
                       e2 \in ScoredExamples(0, CoarseLabels, CoarseScores, FALSE)
                              \cup ScoredExamples(1, CoarseLabels, CoarseScores, FALSE)}

InitMetrics ==
    /\ pc = "scores"
    /\ batch \in ScoredBatches
    /\ cfg = Idle
    /\ fwd = [local_out |-> Strict([b \in 1..Len(batch) |-> batch[b].local_out]),
              global_out |-> Strict([b \in 1..Len(batch) |-> batch[b].global_out])]
    /\ loss = Idle
    /\ acc = Idle
    /\ met = Idle
    /\ mixed = MixedMetrics
    /\ seen = <<>>

ScoreMetrics == MetricsStep("scores", "scored")

NextMetrics == ScoreMetrics

SpecMetrics == InitMetrics /\ [][NextMetrics]_vars

HasUnfilled(b) ==
    \E a \in ArgPositions(b) : LocalLabel(b, a) = NoLabel /\ GlobalLabel(b, a) = NoLabel

(* C9: an example with an argument position whose local and global labels  *)
(* are both -1 has sequence accuracy 0 and strict accuracy 0, whatever the *)
(* scores.                                                                 *)
C9_UnfilledIsNeverCorrect ==
    pc = "scored" =>
        \A b \in Examples : HasUnfilled(b) => met.seq[b] = 0 /\ met.strict[b] = 0

(* an example with the right tactic, an unfilled position and empty or     *)
(* all -inf pools, in a batch of two                                       *)
C9_Witness ==
    /\ pc = "scored"
    /\ Len(batch) = 2
    /\ \E b \in Examples :
        /\ HasUnfilled(b)
        /\ TacticCorrect(b)
        /\ \A a \in ArgPositions(b) :
            /\ \A c \in 1..Len(fwd.local_out[b][a]) : fwd.local_out[b][a][c] = NegInf
            /\ \A c \in 1..Len(fwd.global_out[b][a]) : fwd.global_out[b][a][c] = NegInf
        /\ \E o \in Examples : \E a \in ArgPositions(o) : fwd.global_out[o][a] # <<>>
        /\ met.seq[b] = 0
        /\ met.strict[b] = 0

-----------------------------------------------------------------------------
(* The inference graph of the local+global task.                           *)

MaxExpand == 2

(* tf.math.log_softmax of one row                                          *)
LogSoftmax(row) ==
    Strict([i \in 1..Len(row) |-> LSub(row[i], Log(ReduceSumExp(row)))])

(* tf.math.top_k of one row: the indices of the k highest values, a lower  *)
(* index first among equal values                                          *)
RECURSIVE TopKFrom(_, _, _)
TopKFrom(row, picked, k) ==
    IF k = 0 THEN <<>>
    ELSE LET rest == (1..Len(row)) \ picked
             i == CHOOSE c \in rest :
                      /\ \A j \in rest : LGeq(row[c], row[j])
                      /\ \A j \in rest : j < c => ~LGeq(row[j], row[c])
         IN <<i - 1>> \o TopKFrom(row, picked \cup {i}, k - 1)

(* the indices tf.math.top_k may return for one row: the order of a row    *)
(* that holds a NaN is not specified, any k distinct indices may come back *)
TopKIndices(row, k) ==
    IF \E i \in 1..Len(row) : IsNaN(row[i])
    THEN {ind \in [1..k -> 0..(Len(row) - 1)] : \A i, j \in 1..k : i # j => ind[i] # ind[j]}
    ELSE {TopKFrom(row, {}, k)}

(* tf.math.log_softmax(tactic_logits + tf.math.log(tactic_mask))           *)
MaskedLogSoftmax(tactic_logits, tactic_mask) ==
    Strict([b \in 1..Len(tactic_logits) |->
        LogSoftmax(Strict([t \in 1..Len(tactic_logits[b]) |->
            LAdd(tactic_logits[b][t],
                 Log(IF tactic_mask[b][t] THEN <<1, 1>> ELSE <<0, 1>>))]))])

(* A variant that takes the top k of the unmasked logits.                  *)
top_k_tactics_unmasked(tactic_logits, tactic_mask, tactic_expand_bound) ==
    LET masked == MaskedLogSoftmax(tactic_logits, tactic_mask)
        indices == Strict([b \in 1..Len(tactic_logits) |->
                       TopKFrom(tactic_logits[b], {}, tactic_expand_bound)])
    IN {[indices |-> indices,
         values |-> Strict([b \in 1..Len(tactic_logits) |->
                        Strict([k \in 1..tactic_expand_bound |-> masked[b][indices[b][k] + 1]])])]}

(* TacticPrediction._top_k_tactics: the results it may return, indices and *)
(* values [batch][k]                                                       *)
top_k_tactics(tactic_logits, tactic_mask, tactic_expand_bound) ==
    LET masked == MaskedLogSoftmax(tactic_logits, tactic_mask)
        B == 1..Len(tactic_logits)
    IN {[indices |-> Strict([b \in B |-> ind[b]]),
         values |-> Strict([b \in B |->
                        Strict([k \in 1..tactic_expand_bound |-> masked[b][ind[b][k] + 1]])])] :
        ind \in {f \in [B -> UNION {TopKIndices(masked[b], tactic_expand_bound) : b \in B}] :
                    \A b \in B : f[b] \in TopKIndices(masked[b], tactic_expand_bound)}}

(* tf.transpose of a [batch][k] tensor                                     *)
Transpose(t, k) ==
    Strict([i \in 1..k |-> Strict([b \in 1..Len(t) |-> t[b][i]])])

(* RepeatScalarGraph: the components of the batch, num_repetitions times   *)
RepeatScalarGraph(bt, num_repetitions) ==
    Strict([i \in 1..(num_repetitions * Len(bt)) |-> bt[((i - 1) % Len(bt)) + 1]])

(* the arguments head followed by the local or the global head: one query  *)
(* per argument position of the hypothesised tactic                        *)
HeadQueries(table, tactic) ==
    Strict([a \in 1..NumArgs(tactic) |-> Vec(table[tactic + 1])])

(* LocalArgumentPrediction._reshape_inference_logits                       *)
reshape_inference_logits(logits, tactic_expand_bound) ==
    LET size == Len(logits) \div tactic_expand_bound
    IN Strict([k \in 1..tactic_expand_bound |->
           Strict([b \in 1..size |-> logits[(k - 1) * size + b]])])

(* LocalArgumentPrediction._reshape_global_inference_logits: the columns   *)
(* of the ids of the first component of the repeated batch                 *)
reshape_global_inference_logits(logits, tactic_expand_bound, dyn_global_context) ==
    LET global_logits == reshape_inference_logits(logits, tactic_expand_bound)
        ids == dyn_global_context[1]
    IN Strict([k \in 1..Len(global_logits) |->
           Strict([b \in 1..Len(global_logits[k]) |->
               Strict([a \in 1..Len(global_logits[k][b]) |->
                   Strict([j \in 1..Len(ids) |-> global_logits[k][b][a][ids[j] + 1]])])])])

(* GlobalArgumentPrediction.create_inference_model: the mask given to      *)
(* _top_k_tactics, proofstate_tactic_mask & tactic_mask                    *)
inference_tactic_mask(bt) ==
    LET B == 1..Len(bt)
        no_argument_tactics_mask == Strict([t \in 1..Len(TacticNumArgs) |-> TacticNumArgs[t] = 0])
        no_local_context_proofstates == Strict([b \in B |-> Len(bt[b].lctx) = 0])
        no_global_context_proofstates == Strict([b \in B |-> GlobalSize = 0])
        no_context_proofstates == Strict([b \in B |->
            no_local_context_proofstates[b] /\ no_global_context_proofstates[b]])
    IN Strict([b \in B |-> Strict([t \in 1..Len(TacticNumArgs) |->
           /\ (IF no_context_proofstates[b] THEN no_argument_tactics_mask[t] ELSE TRUE)
           /\ bt[b].mask[t]])])

(* GlobalArgumentPrediction.create_inference_model applied to a batch,     *)
(* after _top_k_tactics returned top_k                                     *)
InferenceForward(bt, tactic_expand_bound, cos, top_k) ==
    LET top_k_indices == Transpose(top_k.indices, tactic_expand_bound)
        tactic == Concat(top_k_indices)
        repeated == RepeatScalarGraph(bt, tactic_expand_bound)
        R == 1..Len(repeated)
        global_ids == Strict([i \in R |-> repeated[i].gids])
        local_raw == convert_ragged_logits_to_dense(
                         QueryKeyMul(Strict([i \in R |-> HeadQueries(repeated[i].ql_of, tactic[i])]),
                                     LocalContextHidden(repeated)))
        global_raw == convert_ragged_logits_to_dense(
                          QueryKeyMulGlobal(Strict([i \in R |-> HeadQueries(repeated[i].qg_of, tactic[i])]),
                                            GlobalEmbeddings(global_ids), cos, Temp))
        normalized == normalize_logits(local_raw, global_raw)
    IN [tactic |-> top_k_indices,
        tactic_logits |-> Transpose(top_k.values, tactic_expand_bound),
        local_in |-> reshape_inference_logits(local_raw, tactic_expand_bound),
        global_in |-> reshape_inference_logits(global_raw, tactic_expand_bound),
        global_norm |-> reshape_inference_logits(normalized[2], tactic_expand_bound),
        local_out |-> reshape_inference_logits(normalized[1], tactic_expand_bound),
        global_out |-> reshape_global_inference_logits(normalized[2], tactic_expand_bound,
                                                       global_ids)]

(* the proof states given to the inference graph: tactic logits, the mask  *)
(* of permitted tactics, the contexts and the queries the heads give for   *)
(* each tactic                                                             *)
TacticMasks == {<<TRUE, TRUE, TRUE>>, <<TRUE, FALSE, TRUE>>, <<FALSE, TRUE, TRUE>>,
                <<TRUE, FALSE, FALSE>>, <<FALSE, FALSE, FALSE>>}
QueryTables == {<<0, q1, q2>> : q1 \in QueryVals, q2 \in QueryVals}

ProofStates(TLs, Ms, Qs) ==
    { [tlogits |-> tl, mask |-> m, hidden |-> NodeHidden, lctx |-> lc, gids |-> gc,
       ql_of |-> ql, qg_of |-> qg] :
      tl \in TLs, m \in Ms, lc \in LocalContexts, gc \in GlobalContexts,
      ql \in Qs, qg \in Qs }

(* a batch of one proof state varies everything; longer batches vary the   *)
(* contexts, the tactic logits and the mask                                *)
InferenceBatches ==
    [1..1 -> ProofStates({TacticLogits(t) : t \in Tactics}, TacticMasks, QueryTables)]
    \cup UNION { [1..n -> ProofStates({TacticLogits(1), TacticLogits(2)},
                                      {<<TRUE, TRUE, TRUE>>, <<TRUE, FALSE, TRUE>>},
                                      {<<0, 1, 1>>})] : n \in 2..MaxBatch }

InitInference ==
    /\ pc = "proofstates"
    /\ batch \in InferenceBatches
    /\ cfg \in [tactic_expand_bound : 1..MaxExpand, global_cosine_similarity : BOOLEAN]
    /\ fwd = Idle
    /\ loss = Idle
    /\ acc = Idle
    /\ met = Idle
    /\ mixed = MixedMetrics
    /\ seen = <<>>

(* one call of the model built by create_inference_model                   *)
Predict ==
    /\ pc = "proofstates"
    /\ \E top_k \in top_k_tactics(y_tactic_logits(batch), inference_tactic_mask(batch),
                                    cfg.tactic_expand_bound) :
        fwd' = InferenceForward(batch, cfg.tactic_expand_bound, cfg.global_cosine_similarity, top_k)
    /\ pc' = "predicted"
    /\ UNCHANGED <<batch, cfg, loss, acc, met, mixed, seen>>

NextInference == Predict

SpecInference == InitInference /\ [][NextInference]_vars

Hypotheses == 1..cfg.tactic_expand_bound

(* C3: in the inference graph the unavailable GlobalIds add nothing to the *)
(* normalization: at every argument position of every hypothesis that has  *)
(* a candidate, the probabilities of the local candidates and of the       *)
(* returned global candidates sum to 1.                                    *)
C3_InferenceSumsToOne ==
    pc = "predicted" =>
        \A k \in Hypotheses : \A b \in Examples :
            \A a \in 1..NumArgs(fwd.tactic[k][b]) :
                (Len(batch[b].lctx) > 0 \/ Len(batch[b].gids) > 0)
                    => ProbSum(fwd.local_out[k][b][a], fwd.global_out[k][b][a]) = One

(* a batch of one proof state with an unavailable GlobalId: the returned   *)
(* probabilities of an argument position sum to less than 1, the rest is   *)
(* the probability of the unavailable id                                   *)
C3_Witness ==
    /\ pc = "predicted"
    /\ Len(batch) = 1
    /\ \E k \in Hypotheses : \E a \in 1..NumArgs(fwd.tactic[k][1]) : \E g \in Unavailable(1) :
        /\ Len(batch[1].gids) > 0
        /\ IsFinite(fwd.global_norm[k][1][a][g + 1])
        /\ ProbSum(fwd.local_out[k][1][a], fwd.global_out[k][1][a]) # One
        /\ RAdd(ProbSum(fwd.local_out[k][1][a], fwd.global_out[k][1][a]),
                Exp(fwd.global_norm[k][1][a][g + 1])) = One

-----------------------------------------------------------------------------
(* The running accumulators over the passes of a model, with               *)
(* MixedMetricsCallback installed.                                         *)

MaxUpdates == 2

(* proof states with one candidate per pool: without arguments, with a     *)
(* local label the scores get right, and with a global label they miss     *)
LifecycleExamples ==
    ScoredExamples(0, CoarseLabels, CoarseScores, FALSE)
    \cup {e \in ScoredExamples(1, CoarseLabels, CoarseScores, TRUE) :
            /\ e.local_out = << <<Score(1)>> >>
            /\ e.global_out = << <<NegInf>> >>
            /\ \/ e.largs = <<0>> /\ e.gargs = <<NoLabel>>
               \/ e.largs = <<NoLabel>> /\ e.gargs = <<0>> /\ e.tlogits = TacticLogits(1)}

LifecycleBatches == UNION {[1..n -> LifecycleExamples] : n \in 1..MaxBatch}

(* the sample weights of a batch of n examples: none, or one non-negative   *)
(* weight per example                                                      *)
SampleWeights(n) == {NoSampleWeight} \cup {SampleWeight(w) : w \in [1..n -> {0, 2}]}

(* the values compute_metrics of the model gives to the accumulators       *)
BatchValues(model, bt) ==
    LET local_out == Strict([b \in 1..Len(bt) |-> bt[b].local_out])
        global_out == Strict([b \in 1..Len(bt) |-> bt[b].global_out])
    IN IF model = "local"
       THEN local_compute_metrics(y_tactic(bt), y_tactic_logits(bt), y_local(bt),
                                  convert_ragged_logits_to_dense(local_out))
       ELSE compute_metrics(y_tactic(bt), y_tactic_logits(bt), y_local(bt), y_global(bt),
                            local_out, global_out)

MaxCounted == 2

(* the compiled metrics of a model after compile: none, or the             *)
(* per-argument accuracies of the metrics() of its task                    *)
CompiledMetrics(config) ==
    IF ~config.compiled THEN Idle
    ELSE IF config.model = "local" THEN [local |-> ZeroMean]
    ELSE [local |-> ZeroMean, global |-> ZeroMean]

(* the argument positions counted by the compiled metrics so far           *)
Counted(state) ==
    IF "global" \in DOMAIN state THEN state.local.count + state.global.count ELSE state.local.count

(* super().compute_metrics(x, y, y_pred, sample_weight): every compiled    *)
(* metric is updated on its output, without the sample weights (they are   *)
(* given to weighted_metrics only).  The local model hands its dense       *)
(* logits to ArgumentSparseCategoricalAccuracy.update_state, where the     *)
(* values of the filtered rows are a dense tensor without to_tensor:       *)
(* AttributeError                                                          *)
CompiledUpdate(config, state, bt) ==
    LET local == ArgumentAccuracyUpdate(state.local, y_local(bt),
                     Strict([b \in 1..Len(bt) |-> bt[b].local_out]), NoSampleWeight)
        global == ArgumentAccuracyUpdate(state.global, y_global(bt),
                      Strict([b \in 1..Len(bt) |-> bt[b].global_out]), NoSampleWeight)
    IN IF ~config.compiled THEN Ok(state)
       ELSE IF config.model = "local" THEN Failed
       ELSE IF local.err \/ global.err THEN Failed
       ELSE Ok([local |-> local.val, global |-> global.val])

InitLifecycle ==
    /\ pc = "built"
    /\ batch = Idle
    /\ cfg \in [model : {"local", "global"}, compiled : BOOLEAN]
    /\ fwd = Idle
    /\ loss = Idle
    /\ acc = CompiledMetrics(cfg)
    /\ met = Idle
    /\ mixed = MixedMetrics
    /\ seen = <<>>

(* the loop of the four hooks: metric.reset_state() for every metric of    *)
(* mixed_metrics                                                           *)
ResetMixedMetrics(hook) ==
    /\ mixed' = [m \in DOMAIN mixed |-> ZeroMean]
    /\ seen' = <<>>
    /\ pc' = hook
    /\ UNCHANGED <<batch, cfg, fwd, loss, acc, met>>

on_train_begin == ResetMixedMetrics("train")
on_test_begin == ResetMixedMetrics("test")
on_predict_begin == ResetMixedMetrics("predict")
on_epoch_begin == ResetMixedMetrics("epoch")

(* compute_metrics on one batch: the compiled metrics are updated, then    *)
(* the two accumulators; a failing update of a compiled metric ends the    *)
(* call                                                                    *)
BatchUpdate ==
    /\ Len(seen) < MaxUpdates
    /\ cfg.compiled => Counted(acc) < MaxCounted
    /\ \E bt \in LifecycleBatches : \E sample_weight \in SampleWeights(Len(bt)) :
        LET metric_results == CompiledUpdate(cfg, acc, bt)
        IN /\ batch' = bt
           /\ IF metric_results.err
              THEN /\ pc' = "error"
                   /\ UNCHANGED <<acc, met, mixed, seen>>
              ELSE /\ acc' = metric_results.val
                   /\ met' = BatchValues(cfg.model, bt)
                   /\ mixed' = MixedUpdate(mixed, met', sample_weight)
                   /\ seen' = Append(seen, Weighted(met', sample_weight))
                   /\ UNCHANGED pc
    /\ UNCHANGED <<cfg, fwd, loss>>

NextLifecycle ==
    on_train_begin \/ on_test_begin \/ on_predict_begin \/ on_epoch_begin \/ BatchUpdate

SpecLifecycle == InitLifecycle /\ [][NextLifecycle]_vars

(* the weighted mean of one of the two values over the examples of the     *)
(* batches seen since the last hook, 0 when their weights sum to 0         *)
SeenExamples == Concat(seen)
SeenMean(field) ==
    LET num == SumOver([i \in 1..Len(SeenExamples) |->
                   SeenExamples[i][field] * SeenExamples[i].w])
        den == SumOver([i \in 1..Len(SeenExamples) |-> SeenExamples[i].w])
    IN IF den = 0 THEN <<0, 1>> ELSE RNorm(num, den)

ReportsSeenMean ==
    /\ MeanResult(mixed.seq) = SeenMean("seq")
    /\ MeanResult(mixed.strict) = SeenMean("strict")

Hook == on_train_begin \/ on_test_begin \/ on_predict_begin \/ on_epoch_begin
ResetsOrAppends ==
    /\ Hook => \A m \in {"seq", "strict"} : MeanResult(mixed'[m]) = <<0, 1>> /\ mixed'[m].count = 0
    /\ (BatchUpdate /\ pc' # "error") =>
                      /\ Len(seen') = Len(seen) + 1
                      /\ SubSeq(seen', 1, Len(seen)) = seen
                      /\ \A m \in {"seq", "strict"} :
                          /\ mixed'[m].count = mixed[m].count
                                 + SumOver([i \in 1..Len(seen'[Len(seen')]) |-> seen'[Len(seen')][i].w])
                          /\ mixed'[m].total >= mixed[m].total

(* C11: each accumulator reports the mean (weighted by the sample weights, *)
(* when given) of the per-example values of exactly the batches processed  *)
(* since the last hook; every hook resets every accumulator of             *)
(* mixed_metrics and a batch update only adds to them.                     *)
C11_RunningMeans == []ReportsSeenMean /\ [][ResetsOrAppends]_vars

(* two batches processed in a test pass, whose examples differ in value    *)
C11_Witness ==
    /\ pc = "test"
    /\ cfg.compiled
    /\ acc.local = [total |-> 1, count |-> 1]
    /\ Len(seen) = 2
    /\ \E i, j \in 1..Len(SeenExamples) :
        /\ SeenExamples[i].strict # SeenExamples[j].strict
        /\ SeenExamples[i].w # SeenExamples[j].w
    /\ MeanResult(mixed.strict) \notin {<<0, 1>>, <<1, 1>>}
    /\ MeanResult(mixed.seq) # MeanResult(mixed.strict)
    /\ ReportsSeenMean

-----------------------------------------------------------------------------
(* SpecTopK: _top_k_tactics applied to rows of tactic logits under every   *)
(* permitted-tactic mask and every expand bound up to the number of        *)
(* tactics.                                                                *)

AllMasks == [1..Len(TacticNumArgs) -> BOOLEAN]
TopKRows(vals) == {[tlogits |-> Strict(tl), mask |-> Strict(mk)] :
                      tl \in [1..Len(TacticNumArgs) -> vals], mk \in AllMasks}
TopKBatches ==
    [1..1 -> TopKRows({Score(0), Score(1), Score(2)})]
    \cup UNION {[1..n -> TopKRows({Score(0), Score(1)})] : n \in 2..MaxBatch}

InitTopK ==
    /\ pc = "logits"
    /\ batch \in {Strict(bt) : bt \in TopKBatches}
    /\ cfg \in [tactic_expand_bound : 1..Len(TacticNumArgs)]
    /\ fwd = Idle
    /\ loss = Idle
    /\ acc = Idle
    /\ met = Idle
    /\ mixed = MixedMetrics
    /\ seen = <<>>

y_tactic_mask(bt) == Strict([b \in 1..Len(bt) |-> bt[b].mask])

(* one call of _top_k_tactics                                              *)
TopK ==
    /\ pc = "logits"
    /\ fwd' \in top_k_tactics(y_tactic_logits(batch), y_tactic_mask(batch),
                              cfg.tactic_expand_bound)
    /\ pc' = "top_k"
    /\ UNCHANGED <<batch, cfg, loss, acc, met, mixed, seen>>

NextTopK == TopK

SpecTopK == InitTopK /\ [][NextTopK]_vars

Ranks == 1..cfg.tactic_expand_bound
Permitted(b) == {t \in 1..Len(TacticNumArgs) : batch[b].mask[t]}
ReturnedIds(b) == {fwd.indices[b][k] + 1 : k \in Ranks}

(* C12 as stated: for every mask and every K up to the number of tactics,  *)
(* no returned tactic id is masked out.                                    *)
C12_NeverMasked ==
    pc = "top_k" =>
        \A b \in Examples : ReturnedIds(b) \subseteq Permitted(b)

(* C12: whenever at least K tactics are permitted for an example, no       *)
(* tactic id returned for it is masked out, whatever the raw logits are;   *)
(* when fewer than K are permitted, masked-out ids are among the K         *)
(* returned ones, with the value -inf when some tactic is permitted (and   *)
(* then every permitted tactic is returned too) and with the value NaN,    *)
(* like every returned value, when none is.                                *)
C12_MaskedExactlyWhenShort ==
    pc = "top_k" =>
        \A b \in Examples :
            /\ Cardinality(Permitted(b)) >= cfg.tactic_expand_bound
                   => ReturnedIds(b) \subseteq Permitted(b)
            /\ Cardinality(Permitted(b)) < cfg.tactic_expand_bound
                   => /\ ReturnedIds(b) \ Permitted(b) # {}
                      /\ Permitted(b) # {} =>
                             /\ Permitted(b) \subseteq ReturnedIds(b)
                             /\ \A k \in Ranks :
                                    (fwd.indices[b][k] + 1) \notin Permitted(b)
                                        => fwd.values[b][k] = NegInf
                      /\ Permitted(b) = {} => \A k \in Ranks : IsNaN(fwd.values[b][k])

(* a masked-out tactic holds the highest raw logit of an example that      *)
(* permits exactly K tactics, and the K returned ids leave it out; another *)
(* example of the batch permits one tactic only and gets a masked-out id   *)
(* with the value -inf at the second rank                                  *)
C12_Witness ==
    /\ pc = "top_k"
    /\ cfg.tactic_expand_bound = 2
    /\ \E b \in Examples :
        /\ Cardinality(Permitted(b)) = 1
        /\ (fwd.indices[b][1] + 1) \in Permitted(b)
        /\ (fwd.indices[b][2] + 1) \notin Permitted(b)
        /\ fwd.values[b][2] = NegInf
    /\ \E b \in Examples :
        /\ Cardinality(Permitted(b)) = 2
        /\ \E t \in 1..Len(TacticNumArgs) :
            /\ t \notin Permitted(b)
            /\ \A u \in Permitted(b) : LGt(batch[b].tlogits[t], batch[b].tlogits[u])
            /\ t \notin ReturnedIds(b)
        /\ ReturnedIds(b) = Permitted(b)

(* C13 as stated: for every example the K values are non-increasing in     *)
(* rank order, each is the masked log-softmax of the id at its rank, and   *)
(* the K ids are pairwise distinct.                                        *)
C13_OrderedValuesOfDistinctIds ==
    pc = "top_k" =>
        LET masked == MaskedLogSoftmax(y_tactic_logits(batch), y_tactic_mask(batch))
        IN \A b \in Examples :
            /\ \A k \in Ranks : k > 1 => LGeq(fwd.values[b][k - 1], fwd.values[b][k])
            /\ \A k \in Ranks : /\ ~IsNaN(fwd.values[b][k])
                                /\ fwd.values[b][k] = masked[b][fwd.indices[b][k] + 1]
            /\ \A j, k \in Ranks : j # k => fwd.indices[b][j] # fwd.indices[b][k]

(* an example none of whose tactics is permitted was ranked                *)
C13_Witness ==
    /\ pc = "top_k"
    /\ cfg.tactic_expand_bound >= 2
    /\ \E b \in Examples : Permitted(b) = {}

-----------------------------------------------------------------------------
(* The tactics the inference graph permits (SpecInference).                *)

NoCandidates(b) == Len(batch[b].lctx) = 0 /\ Len(batch[b].gids) = 0
PermittedAt(b, t) == inference_tactic_mask(batch)[b][t + 1]

(* C14: a tactic that takes arguments is permitted for an example only if  *)
(* its local context or its available global ids are non-empty; with both  *)
(* empty exactly the enabled zero-argument tactics are permitted.          *)
C14_ArgumentTacticsNeedCandidates ==
    pc = "predicted" =>
        \A b \in Examples : \A t \in Tactics :
            /\ PermittedAt(b, t) /\ NumArgs(t) > 0 => ~NoCandidates(b)
            /\ NoCandidates(b) => (PermittedAt(b, t) <=> NumArgs(t) = 0 /\ batch[b].mask[t + 1])

(* an example without any candidate whose first hypothesis is a tactic     *)
(* that takes arguments                                                    *)
C14_Witness ==
    /\ pc = "predicted"
    /\ \E b \in Examples :
        /\ NoCandidates(b)
        /\ NumArgs(fwd.tactic[1][b]) > 0
        /\ IsFinite(fwd.tactic_logits[1][b])

-----------------------------------------------------------------------------
(* SpecScoring: a QueryKeyMul layer is constructed with a method selector  *)
(* and then called on a batch of ragged queries and keys.                  *)

KnownMethods == {"map_fn", "broadcast_ragged", "ragged_to_dense_to_ragged"}
MethodSelectors == KnownMethods \cup {"einsum", ""}

(* QueryKeyMul._mul_map_fn: per example, einsum("ij, kj -> ik") made ragged *)
mul_map_fn(queries, keys) ==
    LET linear_op(q, k) ==
            LET x == Strict([i \in 1..Len(q) |-> Strict([j \in 1..Len(k) |-> Score(Dot(q[i], k[j]))])])
            IN x
    IN Strict([b \in 1..Len(queries) |-> linear_op(queries[b], keys[b])])

(* A variant that keeps the padded columns of the dense product.           *)
mul_ragged_to_dense_keeps_padding(queries, keys) ==
    LET B == 1..Len(queries)
        max_context == SetMax({Len(keys[b]) : b \in B})
        keys_dense == Strict([b \in B |-> PadTo(keys[b], max_context, Vec(0))])
    IN Strict([b \in B |-> Strict([a \in 1..Len(queries[b]) |->
           Strict([c \in 1..max_context |-> Score(Dot(queries[b][a], keys_dense[b][c]))])])])

(* QueryKeyMul._mul_ragged_to_dense_to_ragged: the product of the          *)
(* zero-padded tensors, cut back to the row lengths of queries and keys    *)
mul_ragged_to_dense_to_ragged(queries, keys) ==
    LET B == 1..Len(queries)
        max_args == SetMax({Len(queries[b]) : b \in B})
        max_context == SetMax({Len(keys[b]) : b \in B})
        queries_dense == Strict([b \in B |-> PadTo(queries[b], max_args, Vec(0))])
        keys_dense == Strict([b \in B |-> PadTo(keys[b], max_context, Vec(0))])
        logits_dense == Strict([b \in B |-> Strict([a \in 1..max_args |->
                            Strict([c \in 1..max_context |->
                                Score(Dot(queries_dense[b][a], keys_dense[b][c]))])])])
        logits_part_ragged == Strict([b \in B |-> SubSeq(logits_dense[b], 1, Len(queries[b]))])
    IN Strict([b \in B |-> Strict([a \in 1..Len(queries[b]) |->
           SubSeq(logits_part_ragged[b][a], 1, Len(keys[b]))])])

(* QueryKeyMul.call: the dispatch on self.method                           *)
QueryKeyMulCall(method, queries, keys) ==
    IF method = "map_fn" THEN Ok(mul_map_fn(queries, keys))
    ELSE IF method = "broadcast_ragged" THEN Ok(QueryKeyMul(queries, keys))
    ELSE IF method = "ragged_to_dense_to_ragged" THEN Ok(mul_ragged_to_dense_to_ragged(queries, keys))
    ELSE Failed

RaggedRows(vals) == UNION {[1..n -> vals] : n \in 0..MaxBatchArgs}
ScoringExamples == {[queries |-> Strict(q), keys |-> Strict(k)] :
                       q \in RaggedRows({Vec(1), Vec(2)}), k \in RaggedRows({Vec(0 - 1), Vec(3)})}
ScoringBatches == UNION {[1..n -> ScoringExamples] : n \in 1..MaxBatch}

InitScoring ==
    /\ pc = "config"
    /\ cfg \in [method : MethodSelectors]
    /\ batch \in {Strict(bt) : bt \in ScoringBatches}
    /\ fwd = Idle
    /\ loss = Idle
    /\ acc = Idle
    /\ met = Idle
    /\ mixed = MixedMetrics
    /\ seen = <<>>

(* QueryKeyMul.__init__: the selector is stored as given                   *)
QueryKeyMulInit ==
    /\ pc = "config"
    /\ fwd' = [method |-> cfg.method]
    /\ pc' = "constructed"
    /\ UNCHANGED <<batch, cfg, loss, acc, met, mixed, seen>>

(* QueryKeyMul.call on the queries and keys of a batch                     *)
QueryKeyMulApply ==
    /\ pc = "constructed"
    /\ LET result == QueryKeyMulCall(fwd.method,
                                     Strict([b \in 1..Len(batch) |-> batch[b].queries]),
                                     Strict([b \in 1..Len(batch) |-> batch[b].keys]))
       IN IF result.err
          THEN pc' = "raised" /\ fwd' = fwd
          ELSE pc' = "called" /\ fwd' = [method |-> fwd.method, logits |-> result.val]
    /\ UNCHANGED <<batch, cfg, loss, acc, met, mixed, seen>>

NextScoring == QueryKeyMulInit \/ QueryKeyMulApply

SpecScoring == InitScoring /\ [][NextScoring]_vars

(* C16: a layer is never constructed with an unknown method selector, the  *)
(* construction raises instead, before any queries and keys are given.     *)
C16_UnknownMethodFailsAtConstruction ==
    cfg.method \notin KnownMethods => pc \notin {"constructed", "called", "raised"}

(* a layer with an unknown selector that was constructed and raised only   *)
(* when it was called on a batch                                           *)
C16_Witness ==
    /\ pc = "raised"
    /\ fwd.method \notin KnownMethods
    /\ \E b \in Examples : Len(batch[b].queries) > 0 /\ Len(batch[b].keys) > 0

-----------------------------------------------------------------------------
(* SpecTask: PredictionTask.from_yaml_config on a task configuration.      *)

BASE_TACTIC_PREDICTION == "base_tactic_prediction"
LOCAL_ARGUMENT_PREDICTION == "local_argument_prediction"
GLOBAL_ARGUMENT_PREDICTION == "global_argument_prediction"

KnownTaskTypes == {BASE_TACTIC_PREDICTION, LOCAL_ARGUMENT_PREDICTION, GLOBAL_ARGUMENT_PREDICTION}
TaskTypeStrings == KnownTaskTypes \cup {"definition_task", "Base_Tactic_Prediction", ""}

(* a key of the YAML file: absent, or present with a value                 *)
Absent == [given |-> FALSE]
Given(v) == [given |-> TRUE, v |-> v]
Optional(vals) == {Absent} \cup {Given(v) : v \in vals}
OrDefault(key, default) == IF key.given THEN key.v ELSE default

TaskConfigs ==
    [prediction_task_type : TaskTypeStrings,
     arguments_loss_coefficient : Optional({1, 2}),
     dynamic_global_context : Optional(BOOLEAN),
     global_cosine_similarity : Optional(BOOLEAN),
     sum_loss_over_tactic : Optional(BOOLEAN)]

Raised(error, message) == [raised |-> error, message |-> message]

(* A variant that falls back to the tactic-only task.                      *)
get_prediction_task_constructor_fallback(prediction_task_type) ==
    IF prediction_task_type = LOCAL_ARGUMENT_PREDICTION THEN Ok("LocalArgumentPrediction")
    ELSE IF prediction_task_type = GLOBAL_ARGUMENT_PREDICTION THEN Ok("GlobalArgumentPrediction")
    ELSE Ok("TacticPrediction")

(* get_prediction_task_constructor: the class of a task kind, or the       *)
(* ValueError and the string its message starts with                      *)
get_prediction_task_constructor(prediction_task_type) ==
    IF prediction_task_type = BASE_TACTIC_PREDICTION THEN Ok("TacticPrediction")
    ELSE IF prediction_task_type = LOCAL_ARGUMENT_PREDICTION THEN Ok("LocalArgumentPrediction")
    ELSE IF prediction_task_type = GLOBAL_ARGUMENT_PREDICTION THEN Ok("GlobalArgumentPrediction")
    ELSE [err |-> TRUE,
          val |-> Raised("ValueError", <<prediction_task_type, " is not a valid prediction task type">>)]

(* the keyword arguments each constructor chain accepts besides the        *)
(* required ones                                                           *)
AcceptedKeys(constructor) ==
    IF constructor = "TacticPrediction" THEN {}
    ELSE IF constructor = "LocalArgumentPrediction" THEN {"arguments_loss_coefficient"}
    ELSE {"arguments_loss_coefficient", "dynamic_global_context", "global_cosine_similarity",
          "sum_loss_over_tactic"}

GivenKeys(task_config) ==
    {k \in {"arguments_loss_coefficient", "dynamic_global_context", "global_cosine_similarity",
            "sum_loss_over_tactic"} :
        task_config[k].given}

(* prediction_task_constructor(graph_constants=..., **task_config)         *)
ConstructTask(constructor, task_config) ==
    IF ~(GivenKeys(task_config) \subseteq AcceptedKeys(constructor))
    THEN [err |-> TRUE, val |-> Raised("TypeError", <<"unexpected keyword argument">>)]
    ELSE Ok([class |-> constructor,
             arguments_loss_coefficient |-> OrDefault(task_config.arguments_loss_coefficient, 1),
             dynamic_global_context |-> OrDefault(task_config.dynamic_global_context, FALSE),
             global_cosine_similarity |-> OrDefault(task_config.global_cosine_similarity, FALSE),
             sum_loss_over_tactic |-> OrDefault(task_config.sum_loss_over_tactic, FALSE)])

InitTask ==
    /\ pc = "yaml"
    /\ cfg \in TaskConfigs
    /\ batch = Idle
    /\ fwd = Idle
    /\ loss = Idle
    /\ acc = Idle
    /\ met = Idle
    /\ mixed = MixedMetrics
    /\ seen = <<>>

(* from_yaml_config up to the lookup of the constructor                    *)
LookupConstructor ==
    /\ pc = "yaml"
    /\ LET found == get_prediction_task_constructor(cfg.prediction_task_type)
       IN IF found.err
          THEN pc' = "raised" /\ fwd' = found.val
          ELSE pc' = "constructor" /\ fwd' = [constructor |-> found.val]
    /\ UNCHANGED <<batch, cfg, loss, acc, met, mixed, seen>>

(* from_yaml_config: the call of the constructor on the remaining keys     *)
Construct ==
    /\ pc = "constructor"
    /\ LET made == ConstructTask(fwd.constructor, cfg)
       IN IF made.err
          THEN pc' = "raised" /\ fwd' = made.val
          ELSE pc' = "task" /\ fwd' = [task |-> made.val]
    /\ UNCHANGED <<batch, cfg, loss, acc, met, mixed, seen>>

TACTIC_LOGITS == "tactic_logits"
LOCAL_ARGUMENTS_LOGITS == "local_arguments_logits"
GLOBAL_ARGUMENTS_LOGITS == "global_arguments_logits"

(* the keys of the map returned by the loss method of the task's class     *)
loss_keys(task) ==
    IF task.class = "TacticPrediction" THEN {TACTIC_LOGITS}
    ELSE IF task.class = "LocalArgumentPrediction" THEN {TACTIC_LOGITS, LOCAL_ARGUMENTS_LOGITS}
    ELSE {TACTIC_LOGITS, LOCAL_ARGUMENTS_LOGITS, GLOBAL_ARGUMENTS_LOGITS}

(* A variant that weights every output 1.0.                                *)
loss_weights_all_one(task) ==
    [loss_name \in loss_keys(task) |-> 1]

(* the loss_weights method of the task's class: PredictionTask's for the   *)
(* tactic-only task, the overriding ones for the two argument tasks        *)
loss_weights(task) ==
    IF task.class = "TacticPrediction"
    THEN [loss_name \in loss_keys(task) |-> 1]
    ELSE IF task.class = "LocalArgumentPrediction"
    THEN [k \in {TACTIC_LOGITS, LOCAL_ARGUMENTS_LOGITS} |->
             IF k = TACTIC_LOGITS THEN 1 ELSE task.arguments_loss_coefficient]
    ELSE [k \in {TACTIC_LOGITS, LOCAL_ARGUMENTS_LOGITS, GLOBAL_ARGUMENTS_LOGITS} |->
             IF k = TACTIC_LOGITS THEN 1 ELSE task.arguments_loss_coefficient]

(* task.loss() and task.loss_weights(), as the trainer asks for them       *)
LossWeights ==
    /\ pc = "task"
    /\ fwd' = [task |-> fwd.task,
               loss_keys |-> loss_keys(fwd.task),
               loss_weights |-> loss_weights(fwd.task)]
    /\ pc' = "weights"
    /\ UNCHANGED <<batch, cfg, loss, acc, met, mixed, seen>>

(* the methods that each task class of the module defines itself           *)
OwnMethods(class) ==
    IF class = "PredictionTask"
    THEN {"__init__", "get_config", "from_yaml_config", "loss_weights", "callbacks",
          "from_trainer_checkpoint"}
    ELSE IF class = "TacticPrediction"
    THEN {"__init__", "_top_k_tactics", "_tactic_logits_and_hidden_graph", "get_config",
          "create_train_model", "create_inference_model", "create_input_output",
          "loss", "metrics"}
    ELSE IF class = "LocalArgumentPrediction"
    THEN {"__init__", "get_config", "_local_context_hidden", "_hidden_state_sequences",
          "_reshape_inference_logits", "_reshape_global_inference_logits",
          "create_train_model", "create_inference_model", "create_input_output",
          "loss", "metrics", "loss_weights", "callbacks"}
    ELSE {"__init__", "get_config", "_global_arguments_logits_mask", "_normalize_logits",
          "convert_logits_to_ragged", "create_train_model", "create_inference_model",
          "create_input_output", "loss", "loss_weights", "metrics", "callbacks"}

(* the method resolution order of a task class                             *)
Mro(class) ==
    IF class = "TacticPrediction" THEN <<"TacticPrediction", "PredictionTask">>
    ELSE IF class = "LocalArgumentPrediction"
    THEN <<"LocalArgumentPrediction", "TacticPrediction", "PredictionTask">>
    ELSE <<"GlobalArgumentPrediction", "LocalArgumentPrediction", "TacticPrediction",
           "PredictionTask">>

(* attribute lookup of a method on a task: the first class of the order    *)
(* that defines it                                                         *)
Resolve(class, name) ==
    LET order == Mro(class)
        hits == {i \in 1..Len(order) : name \in OwnMethods(order[i])}
    IN IF hits = {} THEN Failed
       ELSE Ok(order[CHOOSE i \in hits : \A j \in hits : i <= j])

(* the self.<method>(...) calls of create_train_model, in program order    *)
TrainModelCalls(task) ==
    LET owner == Resolve(task.class, "create_train_model").val
    IN IF owner = "TacticPrediction" THEN <<"_tactic_logits_and_hidden_graph">>
       ELSE IF owner = "LocalArgumentPrediction"
       THEN <<"_tactic_logits_and_hidden_graph", "_hidden_state_sequences",
              "_local_arguments_logits">>
       ELSE <<"_tactic_logits_and_hidden_graph", "_hidden_state_sequences",
              "_local_context_hidden">>
            \o (IF task.dynamic_global_context THEN <<"_global_arguments_logits_mask">> ELSE <<>>)
            \o <<"_normalize_logits", "convert_logits_to_ragged", "convert_logits_to_ragged">>

(* the self.<method>(...) calls of create_inference_model, in program order *)
InferenceModelCalls(task) ==
    LET owner == Resolve(task.class, "create_inference_model").val
    IN IF owner = "TacticPrediction"
       THEN <<"_tactic_logits_and_hidden_graph", "_top_k_tactics">>
       ELSE IF owner = "LocalArgumentPrediction"
       THEN <<"_tactic_logits_and_hidden_graph", "_top_k_tactics", "_hidden_state_sequences",
              "_local_arguments_logits", "_reshape_inference_logits">>
       ELSE <<"_tactic_logits_and_hidden_graph", "_top_k_tactics", "_hidden_state_sequences",
              "_local_context_hidden", "_normalize_logits", "_reshape_inference_logits",
              "_reshape_global_inference_logits">>

(* the class of the model that create_train_model returns                  *)
TrainModelClass(task) ==
    LET owner == Resolve(task.class, "create_train_model").val
    IN IF owner = "TacticPrediction" THEN "Model"
       ELSE IF owner = "LocalArgumentPrediction" THEN "LocalArgumentModel"
       ELSE "GlobalArgumentModel"

(* running a builder: the calls resolve one after the other, the first one *)
(* that names no method of the task raises AttributeError                  *)
RunCalls(task, calls, model) ==
    LET missing == {i \in 1..Len(calls) : Resolve(task.class, calls[i]).err}
    IN IF missing = {}
       THEN [task |-> task, called |-> calls, raised |-> "", model |-> model]
       ELSE LET first == CHOOSE i \in missing : \A j \in missing : i <= j
            IN [task |-> task, called |-> SubSeq(calls, 1, first),
                raised |-> "AttributeError", model |-> ""]

CreateTrainModel ==
    /\ pc = "task"
    /\ fwd' = RunCalls(fwd.task, TrainModelCalls(fwd.task), TrainModelClass(fwd.task))
    /\ pc' = "train_model"
    /\ UNCHANGED <<batch, cfg, loss, acc, met, mixed, seen>>

CreateInferenceModel ==
    /\ pc = "task"
    /\ fwd' = RunCalls(fwd.task, InferenceModelCalls(fwd.task), "Model")
    /\ pc' = "inference_model"
    /\ UNCHANGED <<batch, cfg, loss, acc, met, mixed, seen>>

NextTask ==
    LookupConstructor \/ Construct \/ LossWeights \/ CreateTrainModel \/ CreateInferenceModel

SpecTask == InitTask /\ [][NextTask]_vars

ClassOf(prediction_task_type) ==
    IF prediction_task_type = BASE_TACTIC_PREDICTION THEN "TacticPrediction"
    ELSE IF prediction_task_type = LOCAL_ARGUMENT_PREDICTION THEN "LocalArgumentPrediction"
    ELSE "GlobalArgumentPrediction"

(* C17: the lookup returns the class of each of the three known task kinds *)
(* and raises ValueError naming the string for every other string; with an *)
(* unknown string no constructor is returned and no task is constructed.   *)
C17_UnknownTaskTypeRaises ==
    /\ pc \in {"constructor", "task"} => cfg.prediction_task_type \in KnownTaskTypes
    /\ pc = "constructor" => fwd.constructor = ClassOf(cfg.prediction_task_type)
    /\ pc = "task" => fwd.task.class = ClassOf(cfg.prediction_task_type)
    /\ cfg.prediction_task_type \notin KnownTaskTypes /\ pc # "yaml"
           => /\ pc = "raised"
              /\ fwd.raised = "ValueError"
              /\ fwd.message[1] = cfg.prediction_task_type

(* the lookup raised for a string that differs from a known one by case    *)
C17_Witness ==
    /\ pc = "raised"
    /\ cfg.prediction_task_type = "Base_Tactic_Prediction"
    /\ fwd = Raised("ValueError", <<"Base_Tactic_Prediction", " is not a valid prediction task type">>)

-----------------------------------------------------------------------------
(* The hypotheses of the inference graph against the scores of each        *)
(* example taken alone (SpecInference).                                    *)

(* the scores of proof state ps for the hypothesis that its tactic is t:   *)
(* its own queries against its own local context and, for the global       *)
(* pool, the columns of its own global_context_ids                         *)
OwnScores(ps, t) ==
    LET local_raw == convert_ragged_logits_to_dense(
                         QueryKeyMul(<<HeadQueries(ps.ql_of, t)>>, LocalContextHidden(<<ps>>)))
        global_raw == convert_ragged_logits_to_dense(
                          QueryKeyMulGlobal(<<HeadQueries(ps.qg_of, t)>>, GlobalEmbeddings(<<ps.gids>>),
                                            cfg.global_cosine_similarity, Temp))
        normalized == normalize_logits(local_raw, global_raw)
    IN [local |-> normalized[1][1],
        global |-> Strict([a \in 1..NumArgs(t) |->
                       Strict([j \in 1..Len(ps.gids) |-> normalized[2][1][a][ps.gids[j] + 1]])])]

Trim(rows, num_rows, num_cols) ==
    Strict([a \in 1..num_rows |-> SubSeq(rows[a], 1, num_cols)])

OwnLocalScoresAt(k, b) ==
    LET t == fwd.tactic[k][b]
    IN Trim(fwd.local_out[k][b], NumArgs(t), Len(batch[b].lctx))
           = Trim(OwnScores(batch[b], t).local, NumArgs(t), Len(batch[b].lctx))

OwnGlobalScoresAt(k, b) ==
    LET t == fwd.tactic[k][b]
    IN SubSeq(fwd.global_out[k][b], 1, NumArgs(t)) = OwnScores(batch[b], t).global

(* C15: for every rank k and every example b the argument scores at [k, b] *)
(* are those of example b's own graph and candidate pools for the tactic   *)
(* returned at TACTIC[k, b].                                               *)
C15_HypothesesCarryOwnScores ==
    pc = "predicted" =>
        \A k \in Hypotheses : \A b \in Examples :
            OwnLocalScoresAt(k, b) /\ OwnGlobalScoresAt(k, b)

(* two hypotheses for each example of a batch whose examples differ in     *)
(* first tactic, local context and available global ids: the second        *)
(* example has its own local scores and not its own global scores          *)
C15_Witness ==
    /\ pc = "predicted"
    /\ Len(batch) = 2
    /\ cfg.tactic_expand_bound = 2
    /\ batch[1].gids # batch[2].gids
    /\ batch[1].lctx # batch[2].lctx
    /\ Len(batch[2].gids) > 0 /\ Len(batch[2].lctx) > 0
    /\ NumArgs(fwd.tactic[1][2]) > 0
    /\ fwd.tactic[1][1] # fwd.tactic[1][2]
    /\ ~OwnGlobalScoresAt(1, 2)
    /\ OwnLocalScoresAt(1, 2) /\ OwnLocalScoresAt(2, 2)

-----------------------------------------------------------------------------
(* SpecShapes: the conversions of the losses and metrics applied to labels *)
(* and a dense score tensor whose number of rows is chosen freely.         *)

(* ArgumentSparseCategoricalCrossentropy.convert_to_ragged                 *)
(* the rows kept by from_tensor are filtered with nrows = batch size, so   *)
(* the call returns only when the batch has as many kept rows as examples: *)
(* from_value_rowids fails on a row id that is no example id and           *)
(* map_flat_values on a number of filtered rows that is not the number of  *)
(* kept rows                                                               *)
convert_to_ragged(y_true, y_pred) ==
    LET NotNegInf(x) == x # NegInf
        kept == Strict([b \in 1..Len(y_true) |-> FromTensor(y_pred[b], Len(y_true[b]))])
        nrows == Len(y_true)
    IN IF Len(Concat(kept)) # nrows
       THEN Failed
       ELSE Ok(Strict([b \in 1..Len(y_true) |->
                   Strict([a \in 1..Len(kept[b]) |-> SelectSeq(kept[b][a], NotNegInf)])]))

MaxRows == MaxBatchArgs + 1
MaxWidth == 1

ShapeLabels == UNION {[1..n -> {None, 0}] : n \in 0..MaxBatchArgs}
(* a [rows, width] block of scores that differ from row to row             *)
ScoreBlock(rows, width, seed) ==
    Strict([a \in 1..rows |-> Strict([c \in 1..width |-> Score(seed + a)])])
(* the score tensor has 0 to MaxRows rows per example; without rows it is  *)
(* the [batch, 0, 0] tensor convert_ragged_logits_to_dense returns for a   *)
(* batch without argument positions                                        *)
ShapeBatches ==
    UNION { { Strict([b \in 1..n |-> [labels |-> Strict(ls[b]),
                                      scores |-> ScoreBlock(rows, width, b)]]) :
              ls \in [1..n -> ShapeLabels] } :
            n \in 1..MaxBatch, rows \in 0..MaxRows, width \in 0..MaxWidth }

y_labels(bt) == Strict([b \in 1..Len(bt) |-> bt[b].labels])
y_scores(bt) == Strict([b \in 1..Len(bt) |-> bt[b].scores])

InitShapes ==
    /\ pc = "tensors"
    /\ batch \in ShapeBatches
    /\ cfg = Idle
    /\ fwd = Idle
    /\ loss = Idle
    /\ acc = Idle
    /\ met = Idle
    /\ mixed = MixedMetrics
    /\ seen = <<>>

Converted(to, result) ==
    /\ pc = "tensors"
    /\ pc' = to
    /\ fwd' = result
    /\ UNCHANGED <<batch, cfg, loss, acc, met, mixed, seen>>

RaggedLogits == Converted("ragged_logits", Ok(ragged_logits(y_labels(batch), y_scores(batch))))
ConvertToRagged == Converted("convert_to_ragged", convert_to_ragged(y_labels(batch), y_scores(batch)))
ConvertLogitsToRagged ==
    Converted("convert_logits_to_ragged",
              Ok(convert_logits_to_ragged(y_scores(batch),
                     Strict([b \in 1..Len(batch) |-> Strict([c \in 1..Width(y_scores(batch)) |-> c - 1])]),
                     Strict([b \in 1..Len(batch) |-> Len(batch[b].labels)]),
                     "local")))
ArgumentsFilter == Converted("arguments_filter", arguments_filter(y_labels(batch), y_scores(batch)))
RaggedArgumentsFilter ==
    Converted("ragged_arguments_filter", ragged_arguments_filter(y_labels(batch), y_scores(batch)))

(* LocalArgumentSparseCategoricalCrossentropy.call on the tensors          *)
LocalLoss == Converted("local_loss", LocalLossCall(y_labels(batch), y_scores(batch)))
(* ArgumentSparseCategoricalCrossentropy(sum_loss_over_tactic).call on the *)
(* labels and the ragged tensor of the score rows                          *)
ArgumentLoss ==
    /\ pc = "tensors"
    /\ \E s \in BOOLEAN :
        /\ cfg' = [sum_loss_over_tactic |-> s]
        /\ fwd' = ArgumentLossCall(s, y_labels(batch), y_scores(batch))
    /\ pc' = "argument_loss"
    /\ UNCHANGED <<batch, loss, acc, met, mixed, seen>>

NextShapes ==
    \/ RaggedLogits
    \/ ConvertToRagged
    \/ ConvertLogitsToRagged
    \/ ArgumentsFilter
    \/ RaggedArgumentsFilter
    \/ LocalLoss
    \/ ArgumentLoss

SpecShapes == InitShapes /\ [][NextShapes]_vars

MaxSlots == SetMax({Len(batch[b].labels) : b \in Examples})
ScoreRows == Len(batch[1].scores)

(* C18: when the number of rows of the score tensor differs from the       *)
(* number of label slots (the longest label row of the batch), every       *)
(* conversion ends in an error.                                            *)
C18_ShapeMismatchFails ==
    pc # "tensors" /\ ScoreRows # MaxSlots => fwd.err

(* ragged_logits returned normally on a score tensor with more rows than   *)
(* any example has labels, and gave each example as many rows as labels    *)
C18_Witness ==
    /\ pc = "ragged_logits"
    /\ Len(batch) = 2
    /\ MaxSlots = 1
    /\ ScoreRows = MaxRows
    /\ Width(y_scores(batch)) > 0
    /\ ~fwd.err
    /\ \A b \in Examples : Len(fwd.val[b]) = Len(batch[b].labels)

(* every label of the batch is -1                                          *)
AllSentinel == \A b \in Examples : \A a \in 1..Len(batch[b].labels) : batch[b].labels[a] = 0 - 1

(* C7: when every label of the batch is -1 the two filters select nothing, *)
(* the loss of the local task is empty and the argument loss is one 0 per  *)
(* example under the sum policy and empty under the flat policy; no call   *)
(* fails, whatever the number of label slots and the width of the scores.  *)
C7_AllSentinelIsZero ==
    AllSentinel =>
        /\ pc = "arguments_filter" => fwd = Ok(<< <<>>, <<>> >>)
        /\ pc = "ragged_arguments_filter" =>
              /\ ~fwd.err
              /\ \A b \in Examples : fwd.val[1][b] = <<>> /\ fwd.val[2][b] = <<>>
        /\ pc = "local_loss" => fwd = Ok(<<>>)
        /\ pc = "argument_loss" =>
              fwd = Ok(IF cfg.sum_loss_over_tactic THEN [b \in Examples |-> Zero] ELSE <<>>)

(* the summed argument loss of an all-sentinel batch of two examples, one  *)
(* without label slots and one with a -1 slot, on scores of width 0        *)
C7_Witness ==
    /\ pc = "argument_loss"
    /\ AllSentinel
    /\ Len(batch) = 2
    /\ batch[1].labels = <<>>
    /\ batch[2].labels = <<0 - 1>>
    /\ Width(y_scores(batch)) = 0
    /\ cfg.sum_loss_over_tactic
    /\ fwd = Ok(<<Zero, Zero>>)

(* the loss of the local task of an all-sentinel batch with label slots    *)
C7_WitnessLocalLoss ==
    /\ pc = "local_loss"
    /\ AllSentinel
    /\ \E b \in Examples : batch[b].labels # <<>>
    /\ Width(y_scores(batch)) > 0
    /\ fwd = Ok(<<>>)

(* the loss of the local task of an all-sentinel batch with label slots on *)
(* an empty context                                                        *)
C7_WitnessEmptyContext ==
    /\ pc = "local_loss"
    /\ AllSentinel
    /\ \E b \in Examples : batch[b].labels # <<>>
    /\ ScoreRows > 0
    /\ Width(y_scores(batch)) = 0
    /\ fwd = Ok(<<>>)

(* the module-level filter and the loss of the local task on a batch       *)
(* without argument positions: no label slot and no score row              *)
C7_WitnessNoPositions ==
    /\ pc \in {"arguments_filter", "local_loss"}
    /\ Len(batch) = 2
    /\ \A b \in Examples : batch[b].labels = <<>>
    /\ ScoreRows = 0
    /\ ~fwd.err

(* with a label that is not -1 the same calls fail on an empty context:    *)
(* the precondition of C7 is needed                                        *)
LabelledOnEmptyContextFails ==
    (/\ pc \in {"arguments_filter", "local_loss"}
     /\ ~AllSentinel
     /\ Concat(Concat(y_scores(batch))) = <<>>) => fwd.err

-----------------------------------------------------------------------------
(* SpecRoundTrip: a padded score tensor is made ragged by the argument     *)
(* counts and context sizes of its examples and then dense again.          *)

(* the shape of the tensor convert_ragged_logits_to_dense returns          *)
dense_shape(logits) ==
    LET rows == Concat(logits)
    IN << Len(logits),
          SetMax({Len(logits[b]) : b \in 1..Len(logits)}),
          SetMax({Len(rows[i]) : i \in 1..Len(rows)}) >>

RoundTripValues == {Score(1), NegInf}
(* the real entries of one example: arg_cnt rows of ctx_size scores        *)
RealExamples == UNION { {[arg_cnt |-> a, ctx_size |-> c, real |-> r] : r \in [1..a -> [1..c -> RoundTripValues]]} :
                        a \in 0..MaxBatchArgs, c \in 0..MaxBatchArgs }

(* the padded tensor of a batch: -inf beyond the context size within the   *)
(* real rows, 0.0 in the rows beyond the argument count                    *)
Padded(exs, max_args, max_context) ==
    Strict([b \in 1..Len(exs) |->
        Strict([a \in 1..max_args |->
            Strict([c \in 1..max_context |->
                IF a > exs[b].arg_cnt THEN Zero
                ELSE IF c > exs[b].ctx_size THEN NegInf
                ELSE exs[b].real[a][c]])])])

PaddedBatches ==
    UNION { { LET max_args == SetMax({exs[b].arg_cnt : b \in 1..n})
                  max_context == SetMax({exs[b].ctx_size : b \in 1..n})
                  x == Padded(exs, max_args, max_context)
              IN [shape |-> <<n, max_args, max_context>>,
                  examples |-> Strict([b \in 1..n |->
                      [arg_cnt |-> exs[b].arg_cnt, ctx_size |-> exs[b].ctx_size, scores |-> x[b]]])] :
              exs \in [1..n -> RealExamples] } :
            n \in 1..MaxBatch }

InitRoundTrip ==
    /\ pc = "padded"
    /\ \E x \in PaddedBatches : batch = x.examples /\ cfg = [shape |-> x.shape]
    /\ fwd = Idle
    /\ loss = Idle
    /\ acc = Idle
    /\ met = Idle
    /\ mixed = MixedMetrics
    /\ seen = <<>>

(* convert_logits_to_ragged, local branch                                  *)
ToRagged ==
    /\ pc = "padded"
    /\ fwd' = [ragged |-> convert_logits_to_ragged(
                              y_scores(batch),
                              Strict([b \in 1..Len(batch) |-> Strict([c \in 1..batch[b].ctx_size |-> c - 1])]),
                              Strict([b \in 1..Len(batch) |-> batch[b].arg_cnt]),
                              "local")]
    /\ pc' = "ragged"
    /\ UNCHANGED <<batch, cfg, loss, acc, met, mixed, seen>>

(* convert_ragged_logits_to_dense                                          *)
ToDense ==
    /\ pc = "ragged"
    /\ fwd' = [ragged |-> fwd.ragged,
               dense |-> convert_ragged_logits_to_dense(fwd.ragged),
               shape |-> dense_shape(fwd.ragged)]
    /\ pc' = "dense"
    /\ UNCHANGED <<batch, cfg, loss, acc, met, mixed, seen>>

NextRoundTrip == ToRagged \/ ToDense

SpecRoundTrip == InitRoundTrip /\ [][NextRoundTrip]_vars

RoundTripIsIdentity == fwd.shape = cfg.shape /\ fwd.dense = y_scores(batch)
(* the longest context among the examples that have an argument position   *)
MaxRowContext == SetMax({batch[b].ctx_size : b \in {e \in Examples : batch[e].arg_cnt > 0}})

(* C19 as stated: for every padded tensor of shape [batch, max args, max   *)
(* context], making it ragged and dense again yields the tensor.           *)
C19_RoundTrip ==
    pc = "dense" => RoundTripIsIdentity

(* C19: the round trip yields the tensor whenever its last axis is as long *)
(* as the longest context among the examples that have at least one        *)
(* argument position (0 when no example has one).                          *)
C19_RoundTripOfRowWidth ==
    pc = "dense" /\ cfg.shape[3] = MaxRowContext => RoundTripIsIdentity

(* a batch of two examples with different argument counts and context      *)
(* sizes, -inf among the real entries, came back unchanged                 *)
C19_Witness ==
    /\ pc = "dense"
    /\ Len(batch) = 2
    /\ batch[1].arg_cnt = 2 /\ batch[2].arg_cnt = 1
    /\ batch[1].ctx_size = 1 /\ batch[2].ctx_size = 2
    /\ batch[2].scores[1] = <<NegInf, Score(1)>>
    /\ batch[1].scores[1] = <<Score(1), NegInf>>
    /\ RoundTripIsIdentity

-----------------------------------------------------------------------------
(* The ragged filter of the argument loss (SpecShapes).                    *)

ValidSlots(b) == {a \in 1..Len(batch[b].labels) : batch[b].labels[a] # 0 - 1}
(* the k-th valid slot of example b, in position order                     *)
ValidSlot(b, k) == CHOOSE a \in ValidSlots(b) : Cardinality({i \in ValidSlots(b) : i <= a}) = k
(* every labelled position has a score row                                 *)
EnoughRows == \A b \in Examples : \A a \in ValidSlots(b) : a <= Len(batch[b].scores)

(* C20: on labels whose labelled positions all have a score row the       *)
(* ragged arguments_filter returns one row per example of the batch,       *)
(* holding exactly the labels that are not -1 and the score rows at their  *)
(* positions, in position order; an example without a valid label gives an *)
(* empty row and no returned label is -1.                                  *)
C20_FilterKeepsLabelledByExample ==
    (pc = "ragged_arguments_filter" /\ EnoughRows) =>
        /\ ~fwd.err
        /\  LET arguments_true == fwd.val[1]
                arguments_pred == fwd.val[2]
            IN /\ Len(arguments_true) = Len(batch) /\ Len(arguments_pred) = Len(batch)
               /\ \A b \in Examples :
                   /\ Len(arguments_true[b]) = Cardinality(ValidSlots(b))
                   /\ Len(arguments_pred[b]) = Cardinality(ValidSlots(b))
                   /\ \A k \in 1..Cardinality(ValidSlots(b)) :
                       /\ arguments_true[b][k] = batch[b].labels[ValidSlot(b, k)]
                       /\ arguments_true[b][k] # 0 - 1
                       /\ arguments_pred[b][k] = batch[b].scores[ValidSlot(b, k)]

(* a batch whose first example has a valid label after a -1 and whose      *)
(* second example has no valid label                                       *)
C20_Witness ==
    /\ pc = "ragged_arguments_filter"
    /\ Len(batch) = 2
    /\ batch[1].labels = <<0 - 1, 0>>
    /\ batch[2].labels = <<0 - 1>>
    /\ Width(y_scores(batch)) > 0
    /\ EnoughRows
    /\ ~fwd.err
    /\ fwd.val[1] = << <<0>>, <<>> >>
    /\ fwd.val[2] = << <<batch[1].scores[2]>>, <<>> >>

-----------------------------------------------------------------------------
(* The shift of the joint normalization (Spec).                            *)

(* normalized - raw of one candidate                                       *)
ShiftOf(norm, raw) == LSub(norm, raw)
(* minus the logarithm of the sum of the exponentials of a position's raw  *)
(* scores over both pools                                                  *)
JointShift(b, a) == LNeg(Log(ProbSum(fwd.local_in[b][a], fwd.global_in[b][a])))
FiniteLocal(b, a) == {i \in 1..Len(fwd.local_in[b][a]) : IsFinite(fwd.local_in[b][a][i])}
FiniteGlobal(b, a) == {j \in 1..Len(fwd.global_in[b][a]) : IsFinite(fwd.global_in[b][a][j])}

(* the raw scores of a position, the local pool followed by the global one *)
RawScores(b, a) == fwd.local_in[b][a] \o fwd.global_in[b][a]
(* the greatest raw score of a position over both pools, -inf for a        *)
(* position without candidates                                             *)
JointMax(b, a) ==
    IF RawScores(b, a) = <<>> THEN NegInf
    ELSE CHOOSE m \in {RawScores(b, a)[i] : i \in 1..Len(RawScores(b, a))} :
             \A i \in 1..Len(RawScores(b, a)) : LGeq(m, RawScores(b, a)[i])

(* C21: at every position, every local and every global candidate with a  *)
(* finite raw score is shifted by the same constant, minus the log-sum-exp *)
(* of the raw scores of both pools; the value subtracted for stability     *)
(* (arguments_max_logit) is the greatest raw score of the position over    *)
(* both pools; so the order of two candidates across the pools is the      *)
(* order of their raw scores.                                              *)
C21_OneShiftForBothPools ==
    Forwarded =>
        \A b \in Examples : \A a \in ArgPositions(b) :
            /\ fwd.max_logit[b][a] = JointMax(b, a)
            /\ \A i \in FiniteLocal(b, a) :
                   ShiftOf(fwd.local_norm[b][a][i], fwd.local_in[b][a][i]) = JointShift(b, a)
            /\ \A j \in FiniteGlobal(b, a) :
                   ShiftOf(fwd.global_norm[b][a][j], fwd.global_in[b][a][j]) = JointShift(b, a)
            /\ \A i \in FiniteLocal(b, a) : \A j \in FiniteGlobal(b, a) :
                   LGeq(fwd.local_in[b][a][i], fwd.global_in[b][a][j])
                       <=> LGeq(fwd.local_norm[b][a][i], fwd.global_norm[b][a][j])

(* a position whose local maximum is below its global maximum, with finite *)
(* candidates in both pools and a global candidate masked out: the value   *)
(* subtracted is the score of a global candidate                           *)
C21_Witness ==
    /\ pc = "forward"
    /\ \E b \in Examples : \E a \in ArgPositions(b) :
        /\ FiniteLocal(b, a) # {} /\ FiniteGlobal(b, a) # {}
        /\ LGt(ReduceMax(fwd.global_in[b][a]), ReduceMax(fwd.local_in[b][a]))
        /\ fwd.max_logit[b][a] = ReduceMax(fwd.global_in[b][a])
        /\ \E j \in FiniteGlobal(b, a) : fwd.max_logit[b][a] = fwd.global_in[b][a][j]
        /\ \E j \in 1..Len(fwd.global_in[b][a]) : fwd.global_in[b][a][j] = NegInf
        /\ \E i \in FiniteLocal(b, a) : \E j \in FiniteGlobal(b, a) :
               /\ LGt(fwd.global_norm[b][a][j], fwd.local_norm[b][a][i])
               /\ ShiftOf(fwd.local_norm[b][a][i], fwd.local_in[b][a][i])
                      = ShiftOf(fwd.global_norm[b][a][j], fwd.global_in[b][a][j])

-----------------------------------------------------------------------------
(* The loss weights of a constructed task (SpecTask).                      *)

ConfiguredCoefficient == OrDefault(cfg.arguments_loss_coefficient, 1)

(* C22: the loss-weight map has exactly the keys of the loss map; the      *)
(* tactic output weighs 1.0 in every task and every argument output weighs *)
(* the configured arguments_loss_coefficient, 1.0 when none is configured. *)
C22_LossWeights ==
    pc = "weights" =>
        /\ DOMAIN fwd.loss_weights = fwd.loss_keys
        /\ fwd.loss_keys =
               {TACTIC_LOGITS}
               \cup (IF cfg.prediction_task_type \in {LOCAL_ARGUMENT_PREDICTION, GLOBAL_ARGUMENT_PREDICTION}
                     THEN {LOCAL_ARGUMENTS_LOGITS} ELSE {})
               \cup (IF cfg.prediction_task_type = GLOBAL_ARGUMENT_PREDICTION
                     THEN {GLOBAL_ARGUMENTS_LOGITS} ELSE {})
        /\ \A k \in fwd.loss_keys :
               fwd.loss_weights[k] = IF k = TACTIC_LOGITS THEN 1 ELSE ConfiguredCoefficient

(* a local+global task configured with coefficient 2                       *)
C22_Witness ==
    /\ pc = "weights"
    /\ cfg.prediction_task_type = GLOBAL_ARGUMENT_PREDICTION
    /\ cfg.arguments_loss_coefficient = Given(2)
    /\ fwd.loss_weights[TACTIC_LOGITS] = 1
    /\ fwd.loss_weights[LOCAL_ARGUMENTS_LOGITS] = 2
    /\ fwd.loss_weights[GLOBAL_ARGUMENTS_LOGITS] = 2

-----------------------------------------------------------------------------
(* The local pool on batches of graphs of different sizes.                 *)

(* hidden states of the nodes of proof-state graphs of one and two nodes   *)
PoolGraphs == {<<Vec(1)>>, <<Vec(2), Vec(3)>>}

(* sequences of at most MaxPool node ids of a graph of n nodes             *)
PoolContexts(n) == UNION {[1..k -> 0..(n - 1)] : k \in 0..MaxPool}

PoolExamples == UNION {{[hidden |-> g, lctx |-> lc] : lc \in PoolContexts(Len(g))} : g \in PoolGraphs}

PoolBatches == UNION {[1..n -> PoolExamples] : n \in 1..MaxBatch}

InitPool ==
    /\ pc = "graphs"
    /\ batch \in PoolBatches
    /\ cfg = Idle
    /\ fwd = Idle
    /\ loss = Idle
    /\ acc = Idle
    /\ met = Idle
    /\ mixed = MixedMetrics
    /\ seen = <<>>

(* _local_context_hidden applied to the batch                              *)
LocalPool ==
    /\ pc = "graphs"
    /\ fwd' = [ids |-> local_context_ids(batch), pool |-> LocalContextHidden(batch)]
    /\ pc' = "pooled"
    /\ UNCHANGED <<batch, cfg, loss, acc, met, mixed, seen>>

NextPool == LocalPool

SpecPool == InitPool /\ [][NextPool]_vars

RECURSIVE NodesBefore(_, _)
NodesBefore(bt, b) == IF b <= 1 THEN 0 ELSE NodesBefore(bt, b - 1) + Len(bt[b - 1].hidden)

(* C23: candidate j of the local pool of example b is the node of flat     *)
(* index (number of nodes of the examples before b) + local_context_ids[b][j], *)
(* that is the example's own node local_context_ids[b][j], in the given    *)
(* order, and an empty local context gives an empty pool.                  *)
C23_LocalPoolIsOwnContext ==
    pc = "pooled" =>
        /\ Len(fwd.pool) = Len(batch)
        /\ \A b \in 1..Len(batch) :
            /\ Len(fwd.pool[b]) = Len(batch[b].lctx)
            /\ Len(fwd.ids[b]) = Len(batch[b].lctx)
            /\ \A j \in 1..Len(batch[b].lctx) :
                /\ fwd.ids[b][j] = NodesBefore(batch, b) + batch[b].lctx[j]
                /\ fwd.ids[b][j] >= NodesBefore(batch, b)
                /\ fwd.ids[b][j] < NodesBefore(batch, b) + Len(batch[b].hidden)
                /\ fwd.pool[b][j] = batch[b].hidden[batch[b].lctx[j] + 1]

C23_Witness ==
    /\ pc = "pooled"
    /\ Len(batch) = 2
    /\ batch[1].hidden # batch[2].hidden
    /\ batch[1].lctx = <<>>
    /\ batch[2].lctx = <<1, 0>>
    /\ fwd.pool = <<<<>>, <<Vec(3), Vec(2)>>>>
    /\ fwd.ids = <<<<>>, <<2, 1>>>>

-----------------------------------------------------------------------------
(* The columns of the global scores of the inference graph (SpecInference). *)

(* the score that example b's own j-th available id has at position a for  *)
(* the hypothesis of rank k                                                *)
OwnGlobalColumn(k, b, a, j) == OwnScores(batch[b], fwd.tactic[k][b]).global[a][j]

GlobalColumnsOf(k, b) ==
    \A a \in 1..NumArgs(fwd.tactic[k][b]) :
        /\ Len(fwd.global_out[k][b][a]) = Len(batch[b].gids)
        /\ \A j \in 1..Len(batch[b].gids) :
            j <= Len(fwd.global_out[k][b][a])
                /\ fwd.global_out[k][b][a][j] = OwnGlobalColumn(k, b, a, j)

(* C24: for every example b of a batch and every hypothesis, column j of   *)
(* the returned global argument scores is the score of the j-th id of      *)
(* example b's own global_context_ids.                                     *)
C24_GlobalColumnsAreOwnIds ==
    pc = "predicted" => \A k \in Hypotheses : \A b \in Examples : GlobalColumnsOf(k, b)

(* two examples with different available ids: the columns of the first     *)
(* are its own, the one column of the second is that of the first          *)
(* example's id                                                            *)
C24_Witness ==
    /\ pc = "predicted"
    /\ Len(batch) = 2
    /\ batch[1].gids = <<1>>
    /\ batch[2].gids = <<0, 1>>
    /\ NumArgs(fwd.tactic[1][2]) > 0
    /\ GlobalColumnsOf(1, 1)
    /\ Len(fwd.global_out[1][2][1]) = 1
    /\ ~GlobalColumnsOf(1, 2)

-----------------------------------------------------------------------------
(* The capabilities of the task kinds and the calls of their builders      *)
(* (SpecTask).                                                             *)

Capabilities == {"create_train_model", "create_inference_model", "loss", "metrics", "loss_weights"}

TaskClasses == {"TacticPrediction", "LocalArgumentPrediction", "GlobalArgumentPrediction"}

(* C25: each task kind provides the five capabilities, and building its    *)
(* training graph or its inference graph calls only methods that the task  *)
(* defines: no builder stops at a call of a missing method.                *)
C25_BuildersCallDefinedMethods ==
    /\ \A class \in TaskClasses : \A capability \in Capabilities : ~Resolve(class, capability).err
    /\ pc \in {"train_model", "inference_model"} =>
           /\ fwd.raised = ""
           /\ \A i \in 1..Len(fwd.called) : ~Resolve(fwd.task.class, fwd.called[i]).err

(* the builders of the tactic-only and of the local+global task run to the *)
(* end; the training builder of the local task stops at its third call     *)
C25_Witness ==
    /\ pc = "train_model"
    /\ fwd.task.class = "LocalArgumentPrediction"
    /\ fwd.raised = "AttributeError"
    /\ fwd.called = <<"_tactic_logits_and_hidden_graph", "_hidden_state_sequences",
                      "_local_arguments_logits">>
    /\ fwd.model = ""

-----------------------------------------------------------------------------
(* The inference graph of the tactic-only task.                            *)

(* graph_constants.tactic_index_to_numargs as given to the builder         *)
NumArgsTables == {TacticNumArgs, <<0, 0, 1>>, <<1, 0, 0>>}

(* A variant that permits every enabled tactic.                            *)
tactic_only_mask_any_numargs(tactic_index_to_numargs, tactic_mask) ==
    Strict([b \in 1..Len(tactic_mask) |->
        Strict([t \in 1..Len(tactic_index_to_numargs) |-> tactic_mask[b][t]])])

(* TacticPrediction.create_inference_model: the mask given to              *)
(* _top_k_tactics, proofstate_tactic_mask & tactic_mask                    *)
tactic_only_mask(tactic_index_to_numargs, tactic_mask) ==
    LET no_argument_tactics_mask ==
            Strict([t \in 1..Len(tactic_index_to_numargs) |-> tactic_index_to_numargs[t] = 0])
        proofstate_tactic_mask ==
            Strict([b \in 1..Len(tactic_mask) |-> no_argument_tactics_mask])
    IN Strict([b \in 1..Len(tactic_mask) |->
           Strict([t \in 1..Len(tactic_index_to_numargs) |->
               proofstate_tactic_mask[b][t] /\ tactic_mask[b][t]])])

TacticOnlyRows(logit_rows) ==
    {[tlogits |-> tl, mask |-> Strict(mk), lctx |-> lc] :
        tl \in logit_rows, mk \in AllMasks, lc \in {<<>>, <<1>>}}

TacticOnlyBatches ==
    [1..1 -> TacticOnlyRows({Strict(tl) : tl \in [1..Len(TacticNumArgs) -> {Score(0), Score(1)}]})]
    \cup UNION {[1..n -> TacticOnlyRows({TacticLogits(1), TacticLogits(2)})] : n \in 2..MaxBatch}

InitTacticOnly ==
    /\ pc = "proofstates"
    /\ batch \in {Strict(bt) : bt \in TacticOnlyBatches}
    /\ cfg \in [tactic_expand_bound : 1..Len(TacticNumArgs), tactic_index_to_numargs : NumArgsTables]
    /\ fwd = Idle
    /\ loss = Idle
    /\ acc = Idle
    /\ met = Idle
    /\ mixed = MixedMetrics
    /\ seen = <<>>

(* one call of the inference model of the tactic-only task                 *)
PredictTactics ==
    /\ pc = "proofstates"
    /\ LET permitted == tactic_only_mask(cfg.tactic_index_to_numargs, y_tactic_mask(batch))
       IN \E top_k \in top_k_tactics(y_tactic_logits(batch), permitted, cfg.tactic_expand_bound) :
              fwd' = [permitted |-> permitted,
                      tactic |-> Transpose(top_k.indices, cfg.tactic_expand_bound),
                      tactic_logits |-> Transpose(top_k.values, cfg.tactic_expand_bound)]
    /\ pc' = "tactics"
    /\ UNCHANGED <<batch, cfg, loss, acc, met, mixed, seen>>

NextTacticOnly == PredictTactics

SpecTacticOnly == InitTacticOnly /\ [][NextTacticOnly]_vars

(* the enabled tactics of example b that take no argument                  *)
ZeroArgEnabled(b) ==
    {t \in 1..Len(cfg.tactic_index_to_numargs) :
        cfg.tactic_index_to_numargs[t] = 0 /\ batch[b].mask[t]}

(* C26: the tactic-only inference graph permits a tactic only if it takes  *)
(* zero arguments and is not disabled, whatever the example's context is,  *)
(* and whenever at least K such tactics exist none of the K returned       *)
(* tactic ids requires an argument.                                        *)
C26_TacticOnlyReturnsZeroArgTactics ==
    pc = "tactics" =>
        \A b \in Examples :
            /\ {t \in 1..Len(cfg.tactic_index_to_numargs) : fwd.permitted[b][t]} = ZeroArgEnabled(b)
            /\ Cardinality(ZeroArgEnabled(b)) >= cfg.tactic_expand_bound =>
                   \A k \in 1..cfg.tactic_expand_bound :
                       /\ cfg.tactic_index_to_numargs[fwd.tactic[k][b] + 1] = 0
                       /\ fwd.tactic[k][b] + 1 \in ZeroArgEnabled(b)

(* two tactics are returned for an example with a local context whose      *)
(* highest logit belongs to an enabled tactic that takes an argument       *)
C26_Witness ==
    /\ pc = "tactics"
    /\ cfg.tactic_expand_bound = 2
    /\ cfg.tactic_index_to_numargs = <<1, 0, 0>>
    /\ Len(batch) = 1
    /\ batch[1].lctx = <<1>>
    /\ batch[1].mask = <<TRUE, TRUE, TRUE>>
    /\ batch[1].tlogits = <<Score(1), Score(0), Score(0)>>
    /\ fwd.tactic = <<<<1>>, <<2>>>>

-----------------------------------------------------------------------------
(* The three scoring strategies of QueryKeyMul (SpecScoring).              *)

y_queries(bt) == Strict([b \in 1..Len(bt) |-> bt[b].queries])
y_keys(bt) == Strict([b \in 1..Len(bt) |-> bt[b].keys])

(* the result has one row per argument position of example b and one       *)
(* entry per candidate of example b, the dot product of query and key      *)
IsDotProducts(logits) ==
    /\ Len(logits) = Len(batch)
    /\ \A b \in 1..Len(batch) :
        /\ Len(logits[b]) = Len(batch[b].queries)
        /\ \A a \in 1..Len(batch[b].queries) :
            /\ Len(logits[b][a]) = Len(batch[b].keys)
            /\ \A c \in 1..Len(batch[b].keys) :
                logits[b][a][c] = Score(Dot(batch[b].queries[a], batch[b].keys[c]))

(* C27: whichever of the three strategies the layer was constructed with,  *)
(* the call returns, for every batch, the ragged tensor of the dot         *)
(* products with rows args of example b by context size of example b, the  *)
(* same value that the other two strategies return on the same batch.      *)
C27_StrategiesAgree ==
    pc = "called" =>
        /\ fwd.method \in KnownMethods
        /\ IsDotProducts(fwd.logits)
        /\ \A other \in KnownMethods :
            QueryKeyMulCall(other, y_queries(batch), y_keys(batch)) = Ok(fwd.logits)

(* the dense strategy on a batch with an example without argument          *)
(* positions and two keys and an example with one position and one key     *)
C27_Witness ==
    /\ pc = "called"
    /\ fwd.method = "ragged_to_dense_to_ragged"
    /\ Len(batch) = 2
    /\ batch[1].queries = <<>> /\ Len(batch[1].keys) = 2
    /\ batch[2].queries = <<Vec(2)>> /\ batch[2].keys = <<Vec(3)>>
    /\ fwd.logits = <<<<>>, <<<<Score(6 * HiddenSize)>>>>>>

(* the mapped strategy on an example with two positions and no candidate   *)
C27_WitnessEmptyContext ==
    /\ pc = "called"
    /\ fwd.method = "map_fn"
    /\ \E b \in 1..Len(batch) :
        /\ Len(batch[b].queries) = 2 /\ batch[b].keys = <<>>
        /\ fwd.logits[b] = <<<<>>, <<>>>>

-----------------------------------------------------------------------------
(* The two accumulators of mixed_metrics against each other                *)
(* (SpecLifecycle).                                                        *)

(* the sum of the weights of the examples seen since the last reset        *)
SeenWeight == SumOver([i \in 1..Len(SeenExamples) |-> SeenExamples[i].w])

InUnitInterval(r) == r[2] > 0 /\ 0 <= r[1] /\ r[1] <= r[2]

(* C28: after any sequence of batch updates and resets with non-negative   *)
(* sample weights, for the local and for the global model, the two         *)
(* accumulators hold the same count (they received the same updates since  *)
(* the last reset), both reported values lie in [0, 1], and                *)
(* strict_accuracy is not greater than arguments_seq_accuracy.             *)
C28_AccumulatorsInStep ==
    /\ mixed.seq.count = mixed.strict.count
    /\ mixed.seq.count = SeenWeight
    /\ mixed.strict.total <= mixed.seq.total
    /\ InUnitInterval(MeanResult(mixed.seq))
    /\ InUnitInterval(MeanResult(mixed.strict))
    /\ RGeq(MeanResult(mixed.seq), MeanResult(mixed.strict))

(* two batches since the last reset, one example with weight 0, and a      *)
(* strict accuracy strictly between 0 and the sequence accuracy            *)
C28_Witness ==
    /\ pc = "epoch"
    /\ cfg.model = "global"
    /\ cfg.compiled
    /\ acc.global.count > 0
    /\ Len(seen) = 2
    /\ \E i \in 1..Len(SeenExamples) : SeenExamples[i].w = 0
    /\ RGt(MeanResult(mixed.strict), <<0, 1>>)
    /\ RGt(MeanResult(mixed.seq), MeanResult(mixed.strict))
    /\ RGt(<<1, 1>>, MeanResult(mixed.seq))

(* the same for the local model                                            *)
C28_WitnessLocal ==
    /\ pc = "test"
    /\ cfg.model = "local"
    /\ Len(seen) = 2
    /\ \E i \in 1..Len(SeenExamples) : SeenExamples[i].w = 0
    /\ RGt(MeanResult(mixed.seq), MeanResult(mixed.strict))

-----------------------------------------------------------------------------
(* Examples without argument positions in compute_metrics (SpecMetrics).   *)

TacticAccuracy(b) == SparseCategoricalAccuracy(batch[b].tactic, batch[b].tlogits)

(* C29: in GlobalArgumentModel.compute_metrics an example whose tactic has *)
(* no argument position has sequence accuracy 1 whatever the score tensors *)
(* are, and its strict accuracy is its tactic accuracy, also when other    *)
(* examples of the batch have argument positions.                          *)
C29_NoPositionsIsCorrect ==
    pc = "scored" =>
        \A b \in Examples :
            Len(batch[b].largs) = 0 =>
                met.seq[b] = 1 /\ met.strict[b] = TacticAccuracy(b)

(* a batch of an example without positions and a missed tactic, and an     *)
(* example with a position that is scored wrong                            *)
C29_Witness ==
    /\ pc = "scored"
    /\ Len(batch) = 2
    /\ \E b, o \in Examples :
        /\ Len(batch[b].largs) = 0 /\ NumArgs(batch[b].tactic) = 0
        /\ Len(batch[o].largs) > 0 /\ Len(fwd.local_out[o][1]) > 0
        /\ met.seq[o] = 0
        /\ met.seq[b] = 1

(* an example without positions whose tactic is missed: strict accuracy 0  *)
C29_WitnessMissedTactic ==
    /\ pc = "scored"
    /\ \E b \in Examples :
        /\ Len(batch[b].largs) = 0
        /\ TacticAccuracy(b) = 0
        /\ met.seq[b] = 1 /\ met.strict[b] = 0

-----------------------------------------------------------------------------
(* The additive mask of the restricted global vocabulary (Spec).           *)

Available(b) == {batch[b].gids[j] : j \in 1..Len(batch[b].gids)}

(* C30: with dynamic_global_context the additive mask of example b is 0 at *)
(* every id of its global_context_ids and -inf at every other id, in any   *)
(* order of the ids, so the score of every available entry that enters the *)
(* normalization is the score it has without dynamic_global_context.       *)
C30_MaskLeavesAvailableScores ==
    pc = "forward" /\ cfg.dynamic_global_context =>
        \A b \in Examples : \A g \in GlobalIds :
            /\ fwd.mask[b][g + 1] = (IF g \in Available(b) THEN Zero ELSE NegInf)
            /\ \A a \in 1..Len(fwd.global_in[b]) :
                   fwd.global_in[b][a][g + 1]
                       = (IF g \in Available(b)
                          THEN TrainForward(batch, FALSE, cfg.global_cosine_similarity).global_in[b][a][g + 1]
                          ELSE NegInf)

(* an example with one argument position whose ids are given in descending *)
(* order keeps both scores, another example of the batch keeps one         *)
C30_Witness ==
    /\ pc = "forward"
    /\ cfg.dynamic_global_context
    /\ \E b, o \in Examples :
        /\ batch[b].gids = <<1, 0>> /\ NumArgs(batch[b].tactic) > 0
        /\ fwd.mask[b] = <<Zero, Zero>>
        /\ fwd.global_in[b][1] = fwd.global_raw[b][1]
        /\ batch[o].gids = <<1>> /\ NumArgs(batch[o].tactic) > 0
        /\ fwd.mask[o] = <<NegInf, Zero>>
        /\ fwd.global_in[o][1][1] = NegInf /\ fwd.global_raw[o][1][1] # NegInf
        /\ fwd.global_in[o][1][2] = fwd.global_raw[o][1][2]

====
